---- MODULE Spec2Model ----
(***************************************************************************)
(* Model of the autonomous remediation control loop of the self-healing    *)
(* agent.  The repository holds two implementations of the loop, and both  *)
(* are modelled:                                                           *)
(*   "agent" - the package under src/agent (SelfHealingAgent and its       *)
(*             ServiceMonitor, DecisionEngine, ActionExecutor and          *)
(*             LearningEngine);                                            *)
(*   "run"   - the monolith run.py (monitor_loop and its helpers).         *)
(*                                                                         *)
(* Numbers.  Percentages (memory, cpu) are integers; error rates are in    *)
(* hundredths (1.0 is 100); latencies are milliseconds; confidences are    *)
(* integers in units of 1/Scale; times are seconds.  None is the Python    *)
(* None (or an absent key).                                                *)
(***************************************************************************)
EXTENDS Integers, Sequences, FiniteSets, TLC

VARIABLES
    impl,       \* which implementation this behaviour runs: "agent" or "run"
    call,       \* the arguments of the function under examination
    ret,        \* its result, or NoRet while it has not been applied
    now,        \* the wall clock (datetime.utcnow / get_current_time), in seconds
    catalog,    \* collection fix_catalog, in insertion order
    ledger,     \* collection agent_memory, in insertion order
    incidents,  \* collection incidents, in insertion order
    decision_cache, \* DecisionEngine.decision_cache (agent)
    agent_running,  \* run.py agent_running
    agent_lock,     \* run.py agent_lock: None when free, else the instant stop_agent took it
    threads     \* the monitoring threads: where each is in its loop

loop == <<incidents, decision_cache, agent_running, agent_lock, threads>>
stores == <<now, catalog, ledger, incidents, decision_cache, agent_running, agent_lock,
            threads>>
vars == <<impl, call, ret, now, catalog, ledger, incidents, decision_cache,
          agent_running, agent_lock, threads>>

None == -1
NoRet == [pending |-> TRUE]
Impls == {"agent", "run"}

\* The control loop of a behaviour that does not run it.
LoopUnused ==
    /\ incidents = <<>>
    /\ decision_cache = <<>>
    /\ agent_running = FALSE
    /\ agent_lock = None
    /\ threads = <<>>

\* The stores of a behaviour that examines one function only.
StoresUnused == now = 0 /\ catalog = <<>> /\ ledger = <<>> /\ LoopUnused


\* src/models/schemas.py: IssueType, HealthStatus
IssueType == {"SERVICE_DOWN", "MEMORY_PRESSURE", "HIGH_LATENCY", "HIGH_CPU",
              "HIGH_ERROR_RATE", "CUSTOM"}
HealthStatus == {"UP", "DOWN", "DEGRADED"}

\* Python truthiness of an optional number: None and 0 are falsy.
Truthy(v) == v # None /\ v # 0

(***************************************************************************)
(* OutcomeEvaluator                                                        *)
(***************************************************************************)

\* A metrics value in which only the health and the field `f` are given.
MetricsWith(h, f, v) ==
    [health |-> h,
     memory |-> IF f = "memory" THEN v ELSE None,
     latency |-> IF f = "latency" THEN v ELSE None,
     error_rate |-> IF f = "error_rate" THEN v ELSE None,
     cpu |-> IF f = "cpu" THEN v ELSE None]

\* after < before * num/10, as the source's float comparison decides it on
\* the values used here.
Below(after, before, num) == after * 10 < before * num

\* LearningEngine._determine_success
DetermineSuccess(issue, before, after, result_success) ==
    IF ~result_success THEN FALSE
    ELSE CASE issue = "SERVICE_DOWN" -> after.health = "UP"
           [] issue = "MEMORY_PRESSURE" /\ Truthy(before.memory) /\ Truthy(after.memory) ->
                 Below(after.memory, before.memory, 8)
           [] issue = "HIGH_LATENCY" /\ Truthy(before.latency) /\ Truthy(after.latency) ->
                 Below(after.latency, before.latency, 7)
           [] issue = "HIGH_ERROR_RATE" /\ Truthy(before.error_rate) /\ Truthy(after.error_rate) ->
                 Below(after.error_rate, before.error_rate, 5)
           [] OTHER -> after.health = "UP"

\* run.py evaluate_action(before_metrics, after_metrics, issue): the executor's
\* success flag is not a parameter.  Metrics dicts built by collect_metrics
\* are never empty, so the first test of the source is always false.
EvaluateAction(before, after, issue) ==
    IF before.health = "DOWN" /\ after.health = "UP" THEN TRUE
    ELSE IF after.health = "DOWN" THEN FALSE
    ELSE CASE issue = "MEMORY_PRESSURE" /\ Truthy(before.memory) /\ Truthy(after.memory) ->
                 Below(after.memory, before.memory, 9)
           [] issue = "HIGH_LATENCY" /\ Truthy(before.latency) /\ Truthy(after.latency) ->
                 Below(after.latency, before.latency, 8)
           [] issue = "HIGH_ERROR_RATE" /\ Truthy(before.error_rate) /\ Truthy(after.error_rate) ->
                 Below(after.error_rate, before.error_rate, 7)
           [] issue = "HIGH_CPU" /\ Truthy(before.cpu) /\ Truthy(after.cpu) ->
                 Below(after.cpu, before.cpu, 8)
           [] OTHER -> after.health = "UP"

\* The verdict of implementation i.
Verdict(i, issue, before, after, result_success) ==
    IF i = "agent" THEN DetermineSuccess(issue, before, after, result_success)
    ELSE EvaluateAction(before, after, issue)

\* The metric an issue type is about.
IssueField(issue) ==
    CASE issue = "MEMORY_PRESSURE" -> "memory"
      [] issue = "HIGH_LATENCY" -> "latency"
      [] issue = "HIGH_ERROR_RATE" -> "error_rate"
      [] issue = "HIGH_CPU" -> "cpu"
      [] OTHER -> "none"

\* Before/after values of the metric examined by the evaluator.
EvalValues == {None, 0, 20, 25, 40, 70, 76, 95}

EvalInit ==
    /\ impl \in Impls
    /\ \E issue \in IssueType, ok \in BOOLEAN, bh \in HealthStatus, ah \in HealthStatus,
          bv \in EvalValues, av \in EvalValues :
          call = [fn |-> "evaluate", issue |-> issue, result_success |-> ok,
                  before |-> MetricsWith(bh, IssueField(issue), bv),
                  after |-> MetricsWith(ah, IssueField(issue), av)]
    /\ ret = NoRet
    /\ StoresUnused

Evaluate ==
    /\ call.fn = "evaluate"
    /\ ret = NoRet
    /\ ret' = [pending |-> FALSE,
               success |-> Verdict(impl, call.issue, call.before, call.after,
                                   call.result_success)]
    /\ UNCHANGED <<impl, call>>
    /\ UNCHANGED stores

EvalNext == Evaluate

SpecEval == EvalInit /\ [][EvalNext]_vars

(***************************************************************************)
(* C9: when the executor result reports success = false the verdict is     *)
(* failure, for every issue type and every pair of before/after metrics.   *)
(***************************************************************************)
C9_ExecutorFailureIsFailure ==
    (call.fn = "evaluate" /\ ret # NoRet /\ ~call.result_success) => ~ret.success

(***************************************************************************)
(* C10: with an executor result success = true the verdict is success iff  *)
(* SERVICE_DOWN: after.health = UP; MEMORY_PRESSURE: after.memory < 0.8 x  *)
(* before.memory; HIGH_ERROR_RATE: after.error_rate < 0.5 x before; any    *)
(* other issue (the fallback): after.health = UP.  Stated for every pair   *)
(* of metric values that are present, an after-value of 0 included.        *)
(***************************************************************************)
CanonicalVerdict(issue, before, after) ==
    CASE issue = "SERVICE_DOWN" -> after.health = "UP"
      [] issue = "MEMORY_PRESSURE" -> Below(after.memory, before.memory, 8)
      [] issue = "HIGH_ERROR_RATE" -> Below(after.error_rate, before.error_rate, 5)
      [] OTHER -> after.health = "UP"

C10Present(issue, m) ==
    CASE issue = "MEMORY_PRESSURE" -> m.memory # None
      [] issue = "HIGH_ERROR_RATE" -> m.error_rate # None
      [] OTHER -> TRUE

\* The before-value of an issue that was detected by its threshold is not 0.
C10Detected(issue, m) ==
    CASE issue = "MEMORY_PRESSURE" -> m.memory > 0
      [] issue = "HIGH_ERROR_RATE" -> m.error_rate > 0
      [] OTHER -> TRUE

C10_VerdictRule ==
    (/\ call.fn = "evaluate" /\ ret # NoRet /\ call.result_success
     /\ call.issue \in {"SERVICE_DOWN", "MEMORY_PRESSURE", "HIGH_ERROR_RATE", "CUSTOM"}
     /\ C10Present(call.issue, call.before) /\ C10Present(call.issue, call.after)
     /\ C10Detected(call.issue, call.before))
    => (ret.success <=> CanonicalVerdict(call.issue, call.before, call.after))

(***************************************************************************)
(* C11: with an executor result success = true the verdict for             *)
(* HIGH_LATENCY is success iff after.latency < 0.8 x before.latency, and   *)
(* the verdict for HIGH_CPU is success iff after.cpu < 0.8 x before.cpu.   *)
(* Stated for metric values that are present, the before-value above 0.    *)
(***************************************************************************)
C11Value(issue, m) == IF issue = "HIGH_LATENCY" THEN m.latency ELSE m.cpu

C11_LatencyAndCpuRule ==
    (/\ call.fn = "evaluate" /\ ret # NoRet /\ call.result_success
     /\ call.issue \in {"HIGH_LATENCY", "HIGH_CPU"}
     /\ C11Value(call.issue, call.before) > 0
     /\ C11Value(call.issue, call.after) # None)
    => (ret.success <=> Below(C11Value(call.issue, call.after),
                              C11Value(call.issue, call.before), 8))

(***************************************************************************)
(* ActionExecutor                                                          *)
(*                                                                         *)
(* A Python dict is a function from its keys.  A handler either returns a  *)
(* dict or raises; Returns and Raises are the two outcomes.                *)
(***************************************************************************)
Returns(d) == [exc |-> FALSE, val |-> d]
Raises(kind) == [exc |-> TRUE, val |-> kind]

\* dict.update
DictUpdate(base, d) ==
    [k \in (DOMAIN base) \cup (DOMAIN d) |-> IF k \in DOMAIN d THEN d[k] ELSE base[k]]

FailDict(err) == [success |-> FALSE, error |-> err, details |-> "{}"]

\* `response.json() if response.content else {}` as the value of "details":
\* an unparsable body raises; requests raises a JSONDecodeError that is a
\* RequestException in recent versions and a plain ValueError in older ones.
BodyUnparsable(env, checks_content) ==
    env.body = "garbage" \/ (env.body = "empty" /\ ~checks_content)

\* A handler whose POST went through and which then builds its result from
\* the response body; `err` names the handler's RequestException branch.
FromBody(env, checks_content, ok, err) ==
    IF BodyUnparsable(env, checks_content)
    THEN IF env.json_error_is_request_exception THEN Returns(FailDict(err))
         ELSE Raises("ValueError")
    ELSE Returns([success |-> ok, details |-> "body"])

\* ActionExecutor._execute_restart
ExecuteRestart(env) ==
    IF env.post # "2xx" THEN Returns(FailDict("HTTP error"))
    ELSE IF env.health \in {"timeout", "refused"} THEN Returns(FailDict("HTTP error"))
    ELSE FromBody(env, TRUE, env.health = "200", "HTTP error")

\* ActionExecutor._execute_scale_up
ExecuteScaleUp(env) ==
    IF ~env.scale_api THEN Returns(FailDict("Scale API endpoint not configured"))
    ELSE IF ~env.params_is_dict THEN Raises("AttributeError")
    ELSE IF env.post # "2xx" THEN Returns(FailDict("Scale API error"))
    ELSE FromBody(env, FALSE, TRUE, "Scale API error")

\* ActionExecutor._execute_clear_cache
ExecuteClearCache(env) ==
    IF env.post # "2xx" THEN Returns(FailDict("Cache clear error"))
    ELSE FromBody(env, TRUE, TRUE, "Cache clear error")

\* ActionExecutor._execute_rollback
ExecuteRollback(env) ==
    IF ~env.params_is_dict THEN Raises("AttributeError")
    ELSE IF env.post # "2xx" THEN Returns(FailDict("Rollback error"))
    ELSE FromBody(env, TRUE, TRUE, "Rollback error")

\* ActionExecutor._execute_notify: the channel is read outside the try; with
\* no webhook configured nothing is sent and the result is a success.
ExecuteNotify(env) ==
    IF ~env.params_is_dict THEN Raises("AttributeError")
    ELSE IF ~env.webhook THEN Returns([success |-> TRUE, details |-> "channel"])
    ELSE IF ~env.has_name THEN Returns(FailDict("Notification error"))
    ELSE IF env.post # "2xx" THEN Returns(FailDict("Notification error"))
    ELSE Returns([success |-> TRUE, details |-> "channel"])

\* ActionExecutor._execute_http_action
ExecuteHttpAction(env) ==
    IF ~env.params_is_dict \/ ~env.url_formats THEN Raises("KeyError")
    ELSE IF env.post # "2xx" THEN Returns(FailDict("HTTP action error"))
    ELSE FromBody(env, TRUE, TRUE, "HTTP action error")

\* ActionExecutor._execute_script_action: every exception is caught inside.
ExecuteScriptAction(env) ==
    CASE env.script = "nopath" -> Returns(FailDict("Script path not configured"))
      [] env.script # "nopath" /\ ~env.params_is_dict ->
            Returns(FailDict("Script execution error"))
      [] env.script = "timeout" /\ env.params_is_dict ->
            Returns(FailDict("Script execution timeout"))
      [] env.script = "oserror" /\ env.params_is_dict ->
            Returns(FailDict("Script execution error"))
      [] OTHER -> Returns([success |-> env.script = "rc0",
                           error |-> IF env.script = "rc0" THEN "None" ELSE "stderr",
                           details |-> "returncode"])

\* ActionExecutor._execute_custom(action, service, parameters): `registered`
\* is the type of the registry entry of the action, "none" without an entry.
\* A "command" entry calls _execute_command_action, which the class does not
\* define; the AttributeError is caught by the handler's own except clause.
ExecuteCustom(registered, env) ==
    CASE registered = "none" -> Returns(FailDict("Custom action not found"))
      [] registered = "http" ->
            IF ExecuteHttpAction(env).exc THEN Returns(FailDict("Custom action error"))
            ELSE ExecuteHttpAction(env)
      [] registered = "script" -> ExecuteScriptAction(env)
      [] registered = "command" -> Returns(FailDict("Custom action error"))
      [] OTHER -> Returns(FailDict("Unknown action type"))

\* The names for which getattr(self, "_execute_" + action) finds a method.
BuiltinHandlers == {"restart", "scale_up", "clear_cache", "rollback", "notify"}
\* Methods of the class that getattr also finds but that take three arguments:
\* called with (service, parameters) they raise TypeError.
MisfitHandlers == {"custom", "http_action", "script_action"}

\* The dispatch of ActionExecutor.execute: action_method(service, parameters)
\* when getattr finds one, _execute_custom(action, ...) otherwise.
Dispatch(action, registered, env) ==
    CASE action = "restart" -> ExecuteRestart(env)
      [] action = "scale_up" -> ExecuteScaleUp(env)
      [] action = "clear_cache" -> ExecuteClearCache(env)
      [] action = "rollback" -> ExecuteRollback(env)
      [] action = "notify" -> ExecuteNotify(env)
      [] action \in MisfitHandlers -> Raises("TypeError")
      [] OTHER -> ExecuteCustom(registered, env)

ResultTemplate(action) ==
    [action |-> action, success |-> FALSE, execution_time |-> "0",
     error |-> "None", details |-> "{}"]

\* execute() without its try/except: an exception of a handler escapes.
ExecuteUnguarded(action, registered, env) ==
    LET h == Dispatch(action, registered, env) IN
    IF h.exc THEN Raises(h.val)
    ELSE Returns(DictUpdate(ResultTemplate(action), h.val))

\* ActionExecutor.execute
Execute(action, registered, env) ==
    LET h == Dispatch(action, registered, env) IN
    IF h.exc
    THEN Returns([ResultTemplate(action) EXCEPT !.error = h.val, !.execution_time = "t"])
    ELSE Returns([DictUpdate(ResultTemplate(action), h.val) EXCEPT !.execution_time = "t"])

\* What the network, the service descriptor and the catalog parameters can
\* present to a handler.
PostOutcomes == {"2xx", "non2xx", "timeout", "refused"}
ExecEnvs ==
    [post : PostOutcomes, body : {"json", "empty", "garbage"},
     health : {"200", "503", "timeout", "refused"},
     json_error_is_request_exception : BOOLEAN,
     scale_api : BOOLEAN, webhook : BOOLEAN, has_name : BOOLEAN,
     params_is_dict : BOOLEAN, url_formats : BOOLEAN,
     script : {"rc0", "rc1", "timeout", "oserror", "nopath"}]

\* Action names: the built-in ones, the names that collide with other methods
\* of the class, and names resolved through the registry.
ExecActions == BuiltinHandlers \cup MisfitHandlers \cup {"scale_down", "flush", "None"}
RegistryTypes == {"none", "http", "script", "command", "ftp"}

\* The parts of the environment a call of `action` reads; the others are
\* held at one value so that equal calls are not counted many times.
ExecEnvFor(action, registered) ==
    {e \in ExecEnvs :
        /\ (action # "restart" => e.health = "200")
        /\ (action # "scale_up" => e.scale_api)
        /\ (action # "notify" => e.webhook /\ e.has_name)
        /\ (~(action \notin BuiltinHandlers /\ registered = "http") => e.url_formats)
        /\ (~(action \notin BuiltinHandlers /\ registered = "script") => e.script = "rc0")
        /\ (action \in MisfitHandlers =>
               e.post = "2xx" /\ e.body = "json" /\ e.params_is_dict
               /\ ~e.json_error_is_request_exception)}

ExecInit ==
    /\ impl = "agent"
    /\ \E action \in ExecActions, registered \in RegistryTypes :
          /\ (action \in BuiltinHandlers \cup MisfitHandlers => registered = "none")
          /\ \E env \in ExecEnvFor(action, registered) :
                call = [fn |-> "execute", action |-> action, registered |-> registered,
                        env |-> env]
    /\ ret = NoRet
    /\ StoresUnused

ExecuteCall ==
    /\ call.fn = "execute"
    /\ ret = NoRet
    /\ ret' = Execute(call.action, call.registered, call.env)
    /\ UNCHANGED <<impl, call>>
    /\ UNCHANGED stores

ExecNext == ExecuteCall

SpecExec == ExecInit /\ [][ExecNext]_vars

(***************************************************************************)
(* C7: execute never raises, whatever the action name and the failure      *)
(* mode; the result always has success, error, details and execution_time, *)
(* and an action name that is neither built in nor registered gives        *)
(* success = false.                                                        *)
(***************************************************************************)
C7_ExecuteNeverRaises ==
    (call.fn = "execute" /\ ret # NoRet) =>
        /\ ~ret.exc
        /\ {"success", "error", "details", "execution_time"} \subseteq DOMAIN ret.val
        /\ ret.val.success \in BOOLEAN
        /\ (call.action \notin BuiltinHandlers /\ call.registered = "none"
               => ~ret.val.success)

\* A handler raised (a method called with the wrong shape) and execute still
\* returned a structured failure.
C7_Witness ==
    /\ call.fn = "execute" /\ ret # NoRet
    /\ Dispatch(call.action, call.registered, call.env).exc
    /\ ~ret.exc /\ ~ret.val.success

(***************************************************************************)
(* MetricsCollector                                                        *)
(***************************************************************************)
\* config/settings.py: MAX_RETRIES
MAX_RETRIES == 3

\* ServiceMonitor._make_request: attempt after attempt, the first response
\* that raise_for_status accepts is returned; after the last failed attempt
\* the result is None.  `attempts` gives the outcome of each attempt.  The
\* result names the attempt that answered (0 for None) and counts the
\* retry_delay sleeps.
\* _make_request sleeping retry_delay after every failed attempt, the last
\* included.
RECURSIVE MakeRequestSleepingLast(_, _, _, _)
MakeRequestSleepingLast(max_retries, attempts, i, sleeps) ==
    IF i > max_retries THEN [answered |-> 0, made |-> max_retries, sleeps |-> sleeps]
    ELSE IF attempts[i] = "2xx" THEN [answered |-> i, made |-> i, sleeps |-> sleeps]
    ELSE MakeRequestSleepingLast(max_retries, attempts, i + 1, sleeps + 1)

\* The loop `for attempt in range(max_retries)` from its i-th turn on.
RECURSIVE MakeRequestWith(_, _, _, _)
MakeRequestWith(max_retries, attempts, i, sleeps) ==
    IF i > max_retries THEN [answered |-> 0, made |-> max_retries, sleeps |-> sleeps]
    ELSE IF attempts[i] = "2xx" THEN [answered |-> i, made |-> i, sleeps |-> sleeps]
    ELSE IF i = max_retries THEN [answered |-> 0, made |-> i, sleeps |-> sleeps]
    ELSE MakeRequestWith(max_retries, attempts, i + 1, sleeps + 1)

MakeRequestFrom(attempts, i, sleeps) == MakeRequestWith(MAX_RETRIES, attempts, i, sleeps)

MakeRequest(attempts) == MakeRequestFrom(attempts, 1, 0)

\* str.upper on the status strings used here.
Upper(st) == CASE st = "down" -> "DOWN" [] st = "degraded" -> "DEGRADED" [] OTHER -> st

\* ServiceMonitor._parse_health_status: `body` is the kind of JSON value the
\* health endpoint sent, `status` its "status" member ("absent" when it has
\* none, "nonstring" when it is not a string).
ParseHealthStatus(body, status) ==
    IF body # "dict" THEN "UP"
    ELSE IF status = "nonstring" THEN "DEGRADED"
    ELSE IF status # "absent" /\ Upper(status) \in HealthStatus THEN Upper(status)
    ELSE "UP"

\* src/models/schemas.py ServiceMetrics.validate_percentage: cpu, memory and
\* error_rate are None or within 0..100 (error rates are in hundredths here).
ValidPercentage(v, unit) == v = None \/ (0 <= v /\ v <= 100 * unit)

DownMetrics(latency) ==
    [health |-> "DOWN", memory |-> None, cpu |-> None, error_rate |-> 100,
     latency |-> latency]

\* ServiceMonitor.collect_metrics with the conversion of an exception to a
\* DOWN value removed: what escapes is reported as a raise.
CollectMetricsAgentUnguarded(env) ==
    LET r == MakeRequest(env.attempts)
        second == env.metrics_distinct /\ MakeRequest(env.m_attempts).answered # 0
    IN  IF r.answered = 0 THEN Returns(DownMetrics(env.elapsed))
        ELSE IF env.body = "garbage" THEN Raises("ValueError")
        ELSE IF second /\ env.m_body = "list" THEN Raises("AttributeError")
        ELSE LET extra == second /\ env.m_body = "dict"
                 mem == IF extra THEN env.memory ELSE None
                 cpu == IF extra THEN env.cpu ELSE None
                 err == IF extra /\ env.error_rate # None THEN env.error_rate ELSE 0
             IN  IF ~(ValidPercentage(mem, 1) /\ ValidPercentage(cpu, 1)
                      /\ ValidPercentage(err, 100))
                 THEN Raises("ValidationError")
                 ELSE Returns([health |-> ParseHealthStatus(env.body, env.status),
                               memory |-> mem, cpu |-> cpu, error_rate |-> err,
                               latency |-> env.elapsed])

\* ServiceMonitor.collect_metrics
CollectMetricsAgent(env) ==
    IF CollectMetricsAgentUnguarded(env).exc THEN Returns(DownMetrics(None))
    ELSE CollectMetricsAgentUnguarded(env)

\* run.py collect_metrics: one GET with a 5 s timeout, no retry; the status
\* and the members of "details" are copied as they were sent.
CollectMetricsRun(env) ==
    CASE env.attempts[1] = "timeout" -> Returns(DownMetrics(5000))
      [] env.attempts[1] = "refused" -> Returns(DownMetrics(None))
      [] env.attempts[1] = "non2xx" -> Returns(DownMetrics(env.elapsed))
      [] OTHER ->
            IF env.body # "dict" THEN Returns(DownMetrics(None))
            ELSE Returns([health |-> IF env.status = "absent" THEN "UP" ELSE env.status,
                          memory |-> env.memory, cpu |-> env.cpu,
                          error_rate |-> env.error_rate, latency |-> env.elapsed])

CollectMetrics(i, env) ==
    IF i = "agent" THEN CollectMetricsAgent(env) ELSE CollectMetricsRun(env)

\* Whether every attempt the implementation makes at the health probe fails.
ProbeFails(i, env) ==
    IF i = "agent" THEN MakeRequest(env.attempts).answered = 0
    ELSE env.attempts[1] # "2xx"

\* The probe outcomes of one collect_metrics call.
AttemptSeqs ==
    {a \in [1..MAX_RETRIES -> PostOutcomes] :
        \A k \in 2..MAX_RETRIES : a[k] \in {"2xx", "timeout"}}
AllOk == [k \in 1..MAX_RETRIES |-> "2xx"]
AllTimeout == [k \in 1..MAX_RETRIES |-> "timeout"]
StatusValues == {"UP", "DOWN", "DEGRADED", "degraded", "MAINTENANCE", "absent", "nonstring"}
CollectEnvs ==
    [attempts : AttemptSeqs, body : {"dict", "list", "garbage"}, status : StatusValues,
     metrics_distinct : BOOLEAN, m_attempts : {AllOk, AllTimeout},
     m_body : {"dict", "list", "garbage"},
     memory : {None, 95, 150}, cpu : {None, 40}, error_rate : {None, 5, 20000},
     elapsed : {100}]

\* The members of the environment a call reads; the others are held at one
\* value.
CollectEnvCanonical(i, e) ==
    /\ (ProbeFails(i, e) => e.body = "dict" /\ e.status = "UP" /\ e.memory = None
                            /\ e.cpu = None /\ e.error_rate = None)
    /\ (i = "run" \/ ProbeFails(i, e) \/ ~e.metrics_distinct =>
            e.m_attempts = AllOk /\ e.m_body = "dict")
    /\ (i = "run" \/ ProbeFails(i, e) => ~e.metrics_distinct)
    /\ (i = "run" => \A k \in 2..MAX_RETRIES : e.attempts[k] = "2xx")
    /\ (i = "agent" /\ ~e.metrics_distinct =>
            e.memory = None /\ e.cpu = None /\ e.error_rate = None)

CollectInit ==
    /\ impl \in Impls
    /\ \E env \in CollectEnvs :
          /\ CollectEnvCanonical(impl, env)
          /\ call = [fn |-> "collect", env |-> env]
    /\ ret = NoRet
    /\ StoresUnused

CollectCall ==
    /\ call.fn = "collect"
    /\ ret = NoRet
    /\ ret' = CollectMetrics(impl, call.env)
    /\ UNCHANGED <<impl, call>>
    /\ UNCHANGED stores

CollectNext == CollectCall

SpecCollect == CollectInit /\ [][CollectNext]_vars

\* A ServiceMetrics value as the schema accepts it.
WellFormedMetrics(m) ==
    /\ m.health \in HealthStatus
    /\ ValidPercentage(m.memory, 1) /\ ValidPercentage(m.cpu, 1)
    /\ ValidPercentage(m.error_rate, 100)
    /\ (m.latency = None \/ m.latency >= 0)

(***************************************************************************)
(* C8: collect_metrics returns a well-formed ServiceMetrics value for      *)
(* every probe outcome and lets no exception escape; when every attempt at *)
(* the health probe fails the value has health DOWN and error_rate 1.0.    *)
(***************************************************************************)
C8_CollectWellFormed ==
    (call.fn = "collect" /\ ret # NoRet) =>
        /\ ~ret.exc
        /\ WellFormedMetrics(ret.val)
        /\ (ProbeFails(impl, call.env) =>
                ret.val.health = "DOWN" /\ ret.val.error_rate = 100)

(***************************************************************************)
(* The stores and the confidence learner.                                  *)
(*   agent: LearningEngine.update_confidence / recalculate_all_confidence  *)
(*   run:   update_confidence                                              *)
(* A confidence is an integer number of 1/Scale; Scale is a multiple of    *)
(* 10^6 and of 12, so that tenths smoothed five times over ledgers of up   *)
(* to six records are whole numbers.  A value the unit cannot hold is      *)
(* outside the model (the operation is then not taken).                    *)
(***************************************************************************)
Scale == 12 * 1000000
Milli == Scale \div 1000

CatalogEntry(issue, action, auto, confidence) ==
    [issue |-> issue, action |-> action, auto |-> auto, confidence |-> confidence]

\* run.py init_database: default_catalog, upserted into the empty collection.
DefaultCatalog ==
    << CatalogEntry("SERVICE_DOWN", "restart", TRUE, Scale),
       CatalogEntry("MEMORY_PRESSURE", "restart", TRUE, (9 * Scale) \div 10),
       CatalogEntry("MEMORY_PRESSURE", "scale_up", TRUE, (7 * Scale) \div 10),
       CatalogEntry("HIGH_LATENCY", "clear_cache", TRUE, (8 * Scale) \div 10),
       CatalogEntry("HIGH_ERROR_RATE", "rollback", TRUE, (6 * Scale) \div 10),
       CatalogEntry("HIGH_CPU", "scale_up", TRUE, (8 * Scale) \div 10) >>

\* find_one / update_one: of the documents K (positions in natural order) that
\* match, the first; 0 when none does.
FirstIndex(K) == IF K = {} THEN 0 ELSE CHOOSE k \in K : \A j \in K : k <= j

\* The catalog documents of one (issue, action).
Entries(cat, issue, action) ==
    {k \in 1..Len(cat) : cat[k].issue = issue /\ cat[k].action = action}

\* The filter of update_confidence without its test of the issue.
AttemptOfAnyIssue(i, issue, action, r) ==
    /\ r.action = action
    /\ (i = "run" => r.type = "action")

\* The records update_confidence counts: run.py adds type "action" to the filter.
Attempt(i, issue, action, r) ==
    /\ r.issue = issue
    /\ r.action = action
    /\ (i = "run" => r.type = "action")

Attempts(i, led, issue, action) ==
    {k \in 1..Len(led) : Attempt(i, issue, action, led[k])}

\* 0.7 * old + 0.3 * successful / total, as a numerator over 10 * total.
SmoothedUnweighted(old, successful, total) ==
    10 * old * total + 3 * successful * Scale

\* The smoothing with the pair's successes left out: every update lowers.
SmoothedIgnoringSuccesses(old, successful, total) ==
    7 * old * total

Smoothed(old, successful, total) ==
    7 * old * total + 3 * successful * Scale

\* round(num / den, 3): the nearest thousandth.  The code rounds the float, which
\* lies within 1e-16 of num / den: an exact half may land on either side.
Round3(num, den) ==
    LET d == den * Milli
        q == num \div d
        r == num % d
    IN  IF 2 * r < d THEN {q * Milli}
        ELSE IF 2 * r > d THEN {(q + 1) * Milli}
        ELSE {q * Milli, (q + 1) * Milli}

\* update_confidence storing the smoothed value as it is, in run.py too.
NewConfidenceUnrounded(i, old, successful, total) ==
    LET num == IF total > 0 THEN Smoothed(old, successful, total) ELSE old
        den == IF total > 0 THEN 10 * total ELSE 1
    IN  IF num % den = 0 THEN {num \div den} ELSE {}

\* The values update_confidence may store for an entry at confidence old.
NewConfidence(i, old, successful, total) ==
    LET num == IF total > 0 THEN Smoothed(old, successful, total) ELSE old
        den == IF total > 0 THEN 10 * total ELSE 1
    IN  IF i = "run" THEN Round3(num, den)
        ELSE IF num % den = 0 THEN {num \div den} ELSE {}

\* update_confidence writing with upsert: a pair without entry gets one.
UpdateConfidenceUpserting(i, cat, led, issue, action) ==
    LET k == FirstIndex(Entries(cat, issue, action))
        total == Cardinality(Attempts(i, led, issue, action))
        successful == Cardinality({a \in Attempts(i, led, issue, action) : led[a].success})
    IN  IF k = 0 THEN {Append(cat, CatalogEntry(issue, action, TRUE, Scale))}
        ELSE {[cat EXCEPT ![k].confidence = c] :
                 c \in NewConfidence(i, cat[k].confidence, successful, total)}

UpdateConfidence(i, cat, led, issue, action) ==
    LET k == FirstIndex(Entries(cat, issue, action))
        total == Cardinality(Attempts(i, led, issue, action))
        successful == Cardinality({a \in Attempts(i, led, issue, action) : led[a].success})
    IN  IF k = 0 THEN {cat}
        ELSE {[cat EXCEPT ![k].confidence = c] :
                 c \in NewConfidence(i, cat[k].confidence, successful, total)}

\* timedelta(days=7) of recalculate_all_confidence, in seconds.
STALE_AFTER == 604800

\* recalculate_all_confidence: the confidence it stores for one (issue, action).
RecalculatedConfidence(led, t, issue, action) ==
    LET all == Attempts("agent", led, issue, action)
        total == Cardinality(all)
        successful == Cardinality({a \in all : led[a].success})
        recent == Cardinality({a \in all : led[a].timestamp >= t - STALE_AFTER})
        confidence == (successful * Scale) \div total
    IN  IF 2 * recent < total THEN (9 * confidence) \div 10 ELSE confidence

\* recalculate_all_confidence: every (issue, action) of the catalog that has
\* attempts in the ledger gets its success rate; update_one writes the first match.
RecalculateAllConfidence(cat, led, t) ==
    [k \in 1..Len(cat) |->
        LET e == cat[k]
        IN  IF /\ k = FirstIndex(Entries(cat, e.issue, e.action))
               /\ Attempts("agent", led, e.issue, e.action) # {}
            THEN [e EXCEPT !.confidence = RecalculatedConfidence(led, t, e.issue, e.action)]
            ELSE e]

\* The ledger sizes for which successful / total is a whole number of 1/Scale.
RecalculateExact(cat, led) ==
    \A k \in 1..Len(cat) :
        LET total == Cardinality(Attempts("agent", led, cat[k].issue, cat[k].action))
        IN  IF total = 0 THEN TRUE ELSE Scale % (10 * total) = 0

\* The document _store_evaluation (agent) and monitor_loop (run.py) insert.
OutcomeRecord(i, service_id, issue, action, success, t) ==
    [service_id |-> service_id, issue |-> issue, action |-> action,
     success |-> success, timestamp |-> t,
     type |-> IF i = "run" THEN "action" ELSE "none"]

\* routes.add_catalog_entry (agent): refused when the pair exists, when the
\* confidence is outside [0, 1] (FixCatalogEntry) and when the issue already has
\* an entry (unique index on issue).  add_issue (run.py): refused when the pair
\* exists; the confidence is stored as given.
CatalogAccepts(i, cat, issue, action, confidence) ==
    /\ Entries(cat, issue, action) = {}
    /\ i = "agent" =>
          /\ 0 <= confidence /\ confidence <= Scale
          /\ \A k \in 1..Len(cat) : cat[k].issue # issue

(***************************************************************************)
(* The learner on its own: outcome recordings, update_confidence calls,    *)
(* recalculations and catalog registrations in any order, while time       *)
(* passes.                                                                 *)
(***************************************************************************)
MaxLedger == 2
MaxUpdates == 2
Services == {"s1"}
LearnPairs == {<<"SERVICE_DOWN", "restart">>, <<"HIGH_ERROR_RATE", "restart">>}
RegConfidences == {0, 343 * Milli, Scale}
LearnInstants == {0, 1, STALE_AFTER + 1}

\* Time passes: the clock moves to a later instant of T.
Tick(T) ==
    /\ \E t \in T : t > now /\ now' = t
    /\ UNCHANGED <<impl, call, ret, catalog, ledger>>
    /\ UNCHANGED loop

\* call.updates counts the learner runs made so far, to bound them.
LearnInit ==
    /\ impl \in Impls
    /\ call = [fn |-> "learn", updates |-> 0, op |-> <<"none">>]
    /\ ret = NoRet
    /\ now = 0
    /\ catalog = IF impl = "run" THEN DefaultCatalog ELSE <<>>
    /\ ledger = <<>>
    /\ LoopUnused

\* The auto flag and the parameters an entry is registered with.
RegShapes == {<<TRUE, "none">>, <<FALSE, "given">>}

AddCatalogEntry ==
    /\ \E p \in LearnPairs, confidence \in RegConfidences, shape \in RegShapes :
          /\ CatalogAccepts(impl, catalog, p[1], p[2], confidence)
          /\ catalog' = Append(catalog, CatalogEntry(p[1], p[2], shape[1], confidence)
                                           @@ [parameters |-> shape[2]])
    /\ UNCHANGED <<impl, call, ret, now, ledger>>
    /\ UNCHANGED loop

RecordOutcome ==
    /\ Len(ledger) < MaxLedger
    /\ \E p \in LearnPairs, success \in BOOLEAN :
          ledger' = Append(ledger, OutcomeRecord(impl, "s1", p[1], p[2], success, now))
    /\ UNCHANGED <<impl, call, ret, now, catalog>>
    /\ UNCHANGED loop

UpdateConfidenceCall ==
    /\ call.updates < MaxUpdates
    /\ \E p \in LearnPairs :
          /\ catalog' \in UpdateConfidence(impl, catalog, ledger, p[1], p[2])
          /\ call' = [call EXCEPT !.updates = call.updates + 1,
                                  !.op = <<"update_confidence", p[1], p[2]>>]
    /\ UNCHANGED <<impl, ret, now, ledger>>
    /\ UNCHANGED loop

RecalculateCall ==
    /\ impl = "agent"
    /\ call.updates < MaxUpdates
    /\ RecalculateExact(catalog, ledger)
    /\ catalog' = RecalculateAllConfidence(catalog, ledger, now)
    /\ call' = [call EXCEPT !.updates = call.updates + 1, !.op = <<"recalculate">>]
    /\ UNCHANGED <<impl, ret, now, ledger>>
    /\ UNCHANGED loop

\* run.py api_clear_data (POST /api/clear): the ledger, the incidents and the
\* metrics history are emptied and every confidence is reset to 1.0.
ApiClearData ==
    /\ impl = "run"
    /\ ledger' = <<>>
    /\ incidents' = <<>>
    /\ catalog' = [k \in 1..Len(catalog) |-> [catalog[k] EXCEPT !.confidence = Scale]]
    /\ UNCHANGED <<impl, call, ret, now, decision_cache, agent_running, agent_lock,
                   threads>>

LearnNext ==
    \/ AddCatalogEntry
    \/ ApiClearData
    \/ RecordOutcome
    \/ UpdateConfidenceCall
    \/ RecalculateCall
    \/ Tick(LearnInstants)

SpecLearn == LearnInit /\ [][LearnNext]_vars

\* C1: in every state reached by outcome recordings, update_confidence calls and
\* recalculate_all_confidence runs from catalog entries with a confidence in
\* [0, 1], every catalog entry has 0 <= confidence <= 1.
C1_ConfidenceInUnitInterval ==
    \A k \in 1..Len(catalog) :
        0 <= catalog[k].confidence /\ catalog[k].confidence <= Scale

\* An update has smoothed an entry registered at 1.0 towards a success rate of
\* one half: 0.7 * 1.0 + 0.3 * 0.5 = 0.85.
C1_Witness ==
    /\ call.fn = "learn"
    /\ call.updates > 0
    /\ \E k \in 1..Len(catalog) :
          /\ catalog[k].confidence = (85 * Scale) \div 100
          /\ \E a, b \in 1..Len(ledger) :
                /\ ledger[a].issue = catalog[k].issue /\ ledger[a].success
                /\ ledger[b].issue = catalog[k].issue /\ ~ledger[b].success

\* The ledger records of a pair, of every service and of the whole history,
\* and the successes among them.
PairRecords(issue, action) ==
    {a \in 1..Len(ledger) : ledger[a].issue = issue /\ ledger[a].action = action}
PairSuccesses(issue, action) == {a \in PairRecords(issue, action) : ledger[a].success}

\* A step that is update_confidence(call'.op[2], call'.op[3]).
IsUpdateConfidenceStep ==
    call.fn = "learn" /\ call'.updates = call.updates + 1 /\ call'.op[1] = "update_confidence"

\* |a - b|
Distance(a, b) == IF a >= b THEN a - b ELSE b - a

MEMORY_THRESHOLD == 90
LATENCY_THRESHOLD == 1500
ERROR_RATE_THRESHOLD == 30
CPU_THRESHOLD == 90

\* run.py detect_anomaly: one issue, by priority.  collect_metrics stores the
\* members of "details" under their keys even when they are None, so that
\* metrics.get(key, 0) is None and the comparison raises TypeError.
DetectAnomaly(metrics) ==
    IF metrics.health = "DOWN" THEN "SERVICE_DOWN"
    ELSE IF metrics.memory = None THEN "TypeError"
    ELSE IF metrics.memory > MEMORY_THRESHOLD THEN "MEMORY_PRESSURE"
    ELSE IF metrics.latency # None /\ metrics.latency > LATENCY_THRESHOLD THEN "HIGH_LATENCY"
    ELSE IF metrics.cpu = None THEN "TypeError"
    ELSE IF metrics.cpu > CPU_THRESHOLD THEN "HIGH_CPU"
    ELSE IF metrics.error_rate = None THEN "TypeError"
    ELSE IF metrics.error_rate > ERROR_RATE_THRESHOLD THEN "HIGH_ERROR_RATE"
    ELSE "none"

\* The minimum confidence threshold, 0.3.
MIN_CONFIDENCE == (3 * Scale) \div 10

\* The catalog documents decide_action may choose from: auto entries of the
\* issue with a confidence above the threshold.
Eligible(cat, issue) ==
    {k \in 1..Len(cat) :
        cat[k].issue = issue /\ cat[k].auto /\ cat[k].confidence > MIN_CONFIDENCE}

\* sort("confidence", DESCENDING): the position of document k among the
\* documents K; equal confidences keep their natural order.
Rank(cat, K, k) ==
    1 + Cardinality({j \in K : \/ cat[j].confidence > cat[k].confidence
                               \/ cat[j].confidence = cat[k].confidence /\ j < k})

NthBest(cat, K, n) == CHOOSE k \in K : Rank(cat, K, k) = n

\* get_current_time().replace(minute=0, second=0, microsecond=0)
SECONDS_PER_HOUR == 3600
TopOfHour(t) == t - (t % SECONDS_PER_HOUR)

\* The failed records of (service, issue, action) since an instant.
FailuresSince(led, service_id, issue, action, since) ==
    {a \in 1..Len(led) :
        /\ led[a].service_id = service_id
        /\ led[a].issue = issue
        /\ led[a].action = action
        /\ ~led[a].success
        /\ led[a].timestamp >= since}

\* run.py decide_action(issue, service_id) at time t: the position in the
\* catalog of the entry returned, 0 for None.
DecideActionRun(cat, led, issue, service_id, t) ==
    LET valid == Eligible(cat, issue)
        best == NthBest(cat, valid, 1)
        recent_failures ==
            Cardinality(FailuresSince(led, service_id, issue, cat[best].action, TopOfHour(t)))
    IN  IF valid = {} THEN 0
        ELSE IF recent_failures >= 2 /\ Cardinality(valid) > 1 THEN NthBest(cat, valid, 2)
        ELSE best

\* The incident document monitor_loop inserts; the id is the second of the
\* detection and the service.
IncidentId(t, service_id) == <<t, service_id>>

Incident(t, service_id, issue) ==
    [incident_id |-> IncidentId(t, service_id), service_id |-> service_id,
     issue |-> issue, status |-> "detected", actions |-> <<>>]

\* incidents_col.update_one({"incident_id": id}, {$set: status, $push: actions}):
\* the first document with that id is written.
UpdateIncident(inc, id, status, attempt) ==
    LET k == FirstIndex({j \in 1..Len(inc) : inc[j].incident_id = id})
    IN  IF k = 0 THEN inc
        ELSE [inc EXCEPT ![k].status = status,
                         ![k].actions = Append(inc[k].actions, attempt)]

\* What the monitored services may answer to a probe of the loop: healthy,
\* unreachable, or healthy with the CPU above its threshold.
Probe(outcome, cpu) ==
    [attempts |-> [k \in 1..MAX_RETRIES |-> outcome], body |-> "dict", status |-> "UP",
     metrics_distinct |-> TRUE, m_attempts |-> AllOk, m_body |-> "dict",
     memory |-> 50, cpu |-> cpu, error_rate |-> 5, elapsed |-> 100]
LoopProbes == {Probe("2xx", 40), Probe("timeout", 40), Probe("2xx", 95)}

\* The sleeps and timeouts of monitor_loop, execute_action and stop_agent, in
\* seconds.
CHECK_INTERVAL == 10
SETTLE_SLEEP == 3
POST_TIMEOUT == 10
SERVICE_SLEEP == 1
ERROR_SLEEP == 5
JOIN_TIMEOUT == 5

\* How long execute_action takes: a POST to a service that does not answer
\* lasts until its timeout; scale_up and rollback send nothing.
ExecuteDuration(action, env) ==
    IF action \in {"restart", "clear_cache"} /\ env.attempts[1] = "timeout"
    THEN POST_TIMEOUT ELSE 0

\* A monitoring thread of run.py: where it is in monitor_loop, the instant of
\* its next step and, in the middle of a service, the locals of the service.
MaxThreads == 2
MaxIncidents == 3
ThreadIds == 1..MaxThreads
Unborn == [pc |-> "unborn", wake |-> 0]
Idle(wake) == [pc |-> "idle", wake |-> wake]
Dead == [pc |-> "dead", wake |-> 0]
Settling(t, wake, service_id, issue, action, before) ==
    [pc |-> "settle", wake |-> wake,
     service_id |-> service_id, issue |-> issue, action |-> action, before |-> before,
     incident_id |-> IncidentId(t, service_id)]

\* monitor_thread: the thread started last (threads are started in order).
MonitorThread == Cardinality({th \in ThreadIds : threads[th].pc # "unborn"})

RunInstants == {0, 24, 48, SECONDS_PER_HOUR}
RunRegistrations == {<<"SERVICE_DOWN", "rollback">>, <<"HIGH_CPU", "restart">>}
RunRegConfidences == {(35 * Scale) \div 100}

RunInit ==
    /\ impl = "run"
    /\ call = [fn |-> "none"]
    /\ ret = NoRet
    /\ now = 0
    /\ catalog = DefaultCatalog
    /\ ledger = <<>>
    /\ incidents = <<>>
    /\ decision_cache = <<>>
    /\ agent_running = FALSE
    /\ agent_lock = None
    /\ threads = [th \in ThreadIds |-> Unborn]

\* start_agent
StartAgent ==
    /\ agent_lock = None
    /\ ~agent_running
    /\ MonitorThread < MaxThreads
    /\ agent_running' = TRUE
    /\ threads' = [threads EXCEPT ![MonitorThread + 1] = Idle(now)]
    /\ UNCHANGED <<impl, call, ret, now, catalog, ledger, incidents, decision_cache,
                   agent_lock>>

\* stop_agent, up to the join: the lock is taken and the flag cleared.  A
\* monitor thread between two services polls the flag every second and ends
\* well within the join.
StopAgent ==
    /\ agent_lock = None
    /\ agent_running
    /\ agent_running' = FALSE
    /\ agent_lock' = now
    /\ threads' = IF threads[MonitorThread].pc = "idle"
                  THEN [threads EXCEPT ![MonitorThread] = Dead]
                  ELSE threads
    /\ UNCHANGED <<impl, call, ret, now, catalog, ledger, incidents, decision_cache>>

\* stop_agent, from the join: monitor_thread.join(timeout=5) returns when the
\* thread has ended or after 5 s, and the lock is released.
StopAgentReturn ==
    /\ agent_lock # None
    /\ threads[MonitorThread].pc = "dead" \/ now >= agent_lock + JOIN_TIMEOUT
    /\ agent_lock' = None
    /\ UNCHANGED <<impl, call, ret, now, catalog, ledger, incidents, decision_cache,
                   agent_running, threads>>

\* monitor_loop, one service, up to the sleep that follows execute_action:
\* collect, detect, insert the incident, decide, execute.  The result of
\* execute_action is only stored with the record and is not kept here.
RunVisit(th, service_id, env) ==
    /\ threads[th].pc = "idle"
    /\ agent_running
    /\ now >= threads[th].wake
    /\ Len(incidents) < MaxIncidents
    /\ LET metrics == CollectMetricsRun(env).val
           issue == DetectAnomaly(metrics)
           k == DecideActionRun(catalog, ledger, issue, service_id, now)
       IN  CASE issue = "TypeError" ->
                  /\ threads' = [threads EXCEPT ![th] = Idle(now + ERROR_SLEEP)]
                  /\ UNCHANGED <<incidents, call, ret>>
             [] issue = "none" ->
                  /\ threads' = [threads EXCEPT ![th] =
                                     Idle(now + SERVICE_SLEEP + CHECK_INTERVAL)]
                  /\ UNCHANGED <<incidents, call, ret>>
             [] OTHER ->
                  /\ incidents' = Append(incidents, Incident(now, service_id, issue))
                  /\ call' = [fn |-> "decide_action", issue |-> issue,
                              service_id |-> service_id, t |-> now]
                  /\ ret' = [pending |-> FALSE, decision |-> k]
                  /\ threads' = [threads EXCEPT ![th] =
                        IF k = 0 THEN Idle(now + SERVICE_SLEEP + CHECK_INTERVAL)
                        ELSE Settling(now,
                                      now + ExecuteDuration(catalog[k].action, env)
                                          + SETTLE_SLEEP,
                                      service_id, issue, catalog[k].action, metrics)]
    /\ UNCHANGED <<impl, now, catalog, ledger, decision_cache, agent_running, agent_lock>>

\* monitor_loop, the same service after the sleep: collect again, evaluate,
\* insert the record, update the incident, update the confidence.
RunSettle(th, env) ==
    /\ threads[th].pc = "settle"
    /\ now = threads[th].wake
    /\ LET t == threads[th]
           after == CollectMetricsRun(env).val
           resolved == EvaluateAction(t.before, after, t.issue)
           led == Append(ledger, OutcomeRecord("run", t.service_id, t.issue, t.action,
                                               resolved, now))
       IN  /\ ledger' = led
           /\ incidents' = UpdateIncident(incidents, t.incident_id,
                                          IF resolved THEN "resolved" ELSE "failed",
                                          [action |-> t.action, success |-> resolved])
           /\ catalog' \in UpdateConfidence("run", catalog, led, t.issue, t.action)
    /\ threads' = [threads EXCEPT ![th] = Idle(now + SERVICE_SLEEP + CHECK_INTERVAL)]
    /\ call' = [fn |-> "update_confidence"]
    /\ ret' = NoRet
    /\ UNCHANGED <<impl, now, decision_cache, agent_running, agent_lock>>

\* monitor_loop: after a sleep the flag is found cleared and the thread ends.
RunExit(th) ==
    /\ threads[th].pc = "idle"
    /\ now >= threads[th].wake
    /\ ~agent_running
    /\ threads' = [threads EXCEPT ![th] = Dead]
    /\ UNCHANGED <<impl, call, ret, now, catalog, ledger, incidents, decision_cache,
                   agent_running, agent_lock>>

\* add_issue
RunAddIssue ==
    /\ \E p \in RunRegistrations, confidence \in RunRegConfidences :
          /\ CatalogAccepts("run", catalog, p[1], p[2], confidence)
          /\ catalog' = Append(catalog, CatalogEntry(p[1], p[2], TRUE, confidence))
    /\ call' = [fn |-> "add_issue"]
    /\ ret' = NoRet
    /\ UNCHANGED <<impl, now, ledger, incidents, decision_cache, agent_running,
                   agent_lock, threads>>

\* The instants at which something is due: the end of a service's work, the end
\* of the join, the next poll of a cleared flag.
Deadlines ==
    {threads[th].wake : th \in {u \in ThreadIds : threads[u].pc = "settle"}}
    \cup {threads[th].wake : th \in {u \in ThreadIds : threads[u].pc = "idle" /\ ~agent_running}}
    \cup (IF agent_lock # None THEN {agent_lock + JOIN_TIMEOUT} ELSE {})

\* Time passes, to a later instant or to a deadline, and never beyond a
\* deadline; a join of a thread that has ended returns at once.
RunTick ==
    /\ ~(agent_lock # None /\ threads[MonitorThread].pc = "dead")
    /\ \E t \in RunInstants \cup Deadlines :
          /\ t > now
          /\ \A d \in Deadlines : now <= d /\ t <= d
          /\ now' = t
    /\ UNCHANGED <<impl, call, ret, catalog, ledger, incidents, decision_cache,
                   agent_running, agent_lock, threads>>

RunNext ==
    \/ StartAgent
    \/ StopAgent
    \/ StopAgentReturn
    \/ \E th \in ThreadIds, service_id \in Services, env \in LoopProbes :
          RunVisit(th, service_id, env)
    \/ \E th \in ThreadIds, env \in LoopProbes : RunSettle(th, env)
    \/ \E th \in ThreadIds : RunExit(th)
    \/ RunAddIssue
    \/ RunTick

SpecRun == RunInit /\ [][RunNext]_vars

\* C3: once an incident's status is resolved or failed, no later operation
\* changes its status or any other field of it.
TerminalStatus == {"resolved", "failed"}
C3_TerminalIncidentIsFrozen ==
    [][\A k \in 1..Len(incidents) :
          incidents[k].status \in TerminalStatus =>
             k <= Len(incidents') /\ incidents'[k] = incidents[k]]_vars

\* The cooldown window of the decision, one hour back from the decision.
COOLDOWN_WINDOW == SECONDS_PER_HOUR

\* C5: for an issue other than SERVICE_DOWN with two eligible entries, when the
\* ledger holds at least 2 failed records of (service, issue, A) inside the
\* cooldown window and fewer than 2 of B, the decision returns B.
C5_CooldownPrefersOtherEntry ==
    IF call.fn # "decide_action" THEN TRUE
    ELSE \A a, b \in Eligible(catalog, call.issue) :
            ( /\ call.issue # "SERVICE_DOWN"
              /\ Eligible(catalog, call.issue) = {a, b}
              /\ a # b
              /\ Cardinality(FailuresSince(ledger, call.service_id, call.issue,
                                           catalog[a].action, call.t - COOLDOWN_WINDOW)) >= 2
              /\ Cardinality(FailuresSince(ledger, call.service_id, call.issue,
                                           catalog[b].action, call.t - COOLDOWN_WINDOW)) < 2 )
            => ret.decision = b

\* C6: for SERVICE_DOWN decide_action returns the eligible entry of highest
\* confidence, whatever the number of recent failures of that entry.
C6_ServiceDownTakesTopEntry ==
    IF call.fn # "decide_action" THEN TRUE
    ELSE ( /\ call.issue = "SERVICE_DOWN"
           /\ Eligible(catalog, "SERVICE_DOWN") # {} )
         => ret.decision = NthBest(catalog, Eligible(catalog, "SERVICE_DOWN"), 1)

(***************************************************************************)
(* The control loop of src/agent: SelfHealingAgent._monitoring_loop over   *)
(* one service, with the catalog registrations of the API.                 *)
(***************************************************************************)

\* ServiceMonitor.detect_anomalies: the list of issues, in the order of the
\* source.  The thresholds are skipped for a value that is None or 0.  `trend`
\* is what _detect_trend_anomalies finds in the metrics history, which repeats
\* an issue the thresholds may have found already.  The services as configured
\* have no custom thresholds.
DetectAnomalies(metrics, trend) ==
    (IF metrics.health = "DOWN" THEN <<"SERVICE_DOWN">> ELSE <<>>)
    \o (IF Truthy(metrics.memory) /\ metrics.memory > MEMORY_THRESHOLD
        THEN <<"MEMORY_PRESSURE">> ELSE <<>>)
    \o (IF Truthy(metrics.latency) /\ metrics.latency > LATENCY_THRESHOLD
        THEN <<"HIGH_LATENCY">> ELSE <<>>)
    \o (IF Truthy(metrics.cpu) /\ metrics.cpu > CPU_THRESHOLD
        THEN <<"HIGH_CPU">> ELSE <<>>)
    \o (IF Truthy(metrics.error_rate) /\ metrics.error_rate > ERROR_RATE_THRESHOLD
        THEN <<"HIGH_ERROR_RATE">> ELSE <<>>)
    \o (IF Truthy(metrics.memory) /\ "MEMORY_PRESSURE" \in trend
        THEN <<"MEMORY_PRESSURE">> ELSE <<>>)
    \o (IF Truthy(metrics.error_rate) /\ "HIGH_ERROR_RATE" \in trend
        THEN <<"HIGH_ERROR_RATE">> ELSE <<>>)

\* DecisionEngine.decide_action, the cache: an entry of the key is returned
\* while (utcnow() - timestamp).seconds < 60; timedelta.seconds is the part of
\* the difference below one day.
CACHE_SECONDS == 60
SECONDS_PER_DAY == 86400
CacheKey(issue, service_id) == <<issue, service_id>>
CacheHit(cache, key, t) ==
    /\ key \in DOMAIN cache
    /\ (t - cache[key].timestamp) % SECONDS_PER_DAY < CACHE_SECONDS

\* DecisionEngine._is_recurring_issue(issue, service_id, minutes=30)
RECURRING_WINDOW == 1800
RECURRING_COUNT == 3
IsRecurringIssue(led, issue, service_id, t) ==
    Cardinality({a \in 1..Len(led) :
                    /\ led[a].service_id = service_id
                    /\ led[a].issue = issue
                    /\ led[a].timestamp >= t - RECURRING_WINDOW}) >= RECURRING_COUNT

\* _apply_decision_strategy without its third strategy, the escalation.
ApplyDecisionStrategyWithoutEscalation(cat, led, K, issue, service_id, t, pick) ==
    IF Cardinality(K) = 1 THEN NthBest(cat, K, 1)
    ELSE IF issue = "SERVICE_DOWN" THEN NthBest(cat, K, 1)
    ELSE IF pick \in K THEN pick
    ELSE NthBest(cat, K, 1)

\* DecisionEngine._apply_decision_strategy on the documents K of the catalog:
\* `pick` is 0 when random.random() >= 0.1 and else the document
\* random.choice takes.
ApplyDecisionStrategy(cat, led, K, issue, service_id, t, pick) ==
    LET aggressive == {k \in K : cat[k].action \in {"scale_up", "restart"}}
    IN  IF Cardinality(K) = 1 THEN NthBest(cat, K, 1)
        ELSE IF issue = "SERVICE_DOWN" THEN NthBest(cat, K, 1)
        ELSE IF /\ issue \in {"MEMORY_PRESSURE", "HIGH_CPU"}
                /\ IsRecurringIssue(led, issue, service_id, t)
                /\ aggressive # {}
             THEN NthBest(cat, aggressive, 1)
        ELSE IF pick \in K THEN pick
        ELSE NthBest(cat, K, 1)

\* What decide_action returns: None, or a catalog document as it was read
\* (k is its position in the catalog).
NoDecision == [k |-> 0]
Decision(cat, k) == [k |-> k, entry |-> cat[k]]

\* decide_action taking random.choice among all the entries of the issue,
\* before the filter on auto and confidence.
DecideActionAgentExploringFirst(cat, led, cache, issue, service_id, t, pick) ==
    LET key == CacheKey(issue, service_id)
        K == Eligible(cat, issue)
        drawn == pick \in 1..Len(cat) /\ cat[pick].issue = issue
        chosen == IF drawn THEN pick
                  ELSE ApplyDecisionStrategy(cat, led, K, issue, service_id, t, pick)
        selected == Decision(cat, chosen)
    IN  IF CacheHit(cache, key, t) THEN [decision |-> cache[key].decision, cache |-> cache]
        ELSE IF K = {} /\ ~drawn THEN [decision |-> NoDecision, cache |-> cache]
        ELSE [decision |-> selected,
              cache |-> [c \in DOMAIN cache \cup {key} |->
                            IF c = key THEN [decision |-> selected, timestamp |-> t]
                            ELSE cache[c]]]

\* DecisionEngine.decide_action(issue, service_id) at time t: the decision and
\* the cache it leaves.  The filter on action_history removes nothing, since
\* nothing calls record_action_outcome and action_history stays empty.
DecideActionAgent(cat, led, cache, issue, service_id, t, pick) ==
    LET key == CacheKey(issue, service_id)
        K == Eligible(cat, issue)
        selected == Decision(cat, ApplyDecisionStrategy(cat, led, K, issue, service_id, t, pick))
    IN  IF CacheHit(cache, key, t) THEN [decision |-> cache[key].decision, cache |-> cache]
        ELSE IF K = {} THEN [decision |-> NoDecision, cache |-> cache]
        ELSE [decision |-> selected,
              cache |-> [c \in DOMAIN cache \cup {key} |->
                            IF c = key THEN [decision |-> selected, timestamp |-> t]
                            ELSE cache[c]]]

\* LearningEngine._get_post_action_metrics: fixed values.
PostActionMetrics ==
    [health |-> "UP", memory |-> 50, cpu |-> 40, error_rate |-> 5, latency |-> 500]

\* SelfHealingAgent._create_incident: the document inserted.
AgentIncident(t, service_id, issue) ==
    [incident_id |-> IncidentId(t, service_id), service_id |-> service_id,
     issue |-> issue, status |-> "detected", updates |-> <<>>]

\* SelfHealingAgent._update_incident(incident_id, action, success, resolution):
\* the first document with that id gets the three fields; resolved_at is not
\* among them, so the status is not written.
AgentUpdateIncident(inc, id, action, success) ==
    LET k == FirstIndex({j \in 1..Len(inc) : inc[j].incident_id = id})
    IN  IF k = 0 THEN inc
        ELSE [inc EXCEPT ![k].updates =
                 <<[action |-> action, success |-> success,
                    resolution |-> IF success THEN "resolved" ELSE "failed"]>>]

\* What the service answers to the executor in the loop.
ExecEnv(post) ==
    [post |-> post, body |-> "json", health |-> "200",
     json_error_is_request_exception |-> TRUE, scale_api |-> TRUE, webhook |-> TRUE,
     has_name |-> TRUE, params_is_dict |-> TRUE, url_formats |-> TRUE, script |-> "rc0"]

\* _handle_anomaly with update_confidence called before the outcome is stored.
HandleAnomalyUpdatingFirst(st, service_id, metrics, issue, xenv, pick, t) ==
    LET inc == Append(st.incidents, AgentIncident(t, service_id, issue))
        d == DecideActionAgent(st.catalog, st.ledger, st.cache, issue, service_id, t, pick)
        decision == d.decision
        current == IF decision.k = 0 THEN None ELSE st.catalog[decision.k].confidence
        returned == [pending |-> FALSE, decision |-> decision.k, current |-> current]
        action == decision.entry.action
        result == Execute(action, "none", xenv).val
        success == DetermineSuccess(issue, metrics, PostActionMetrics, result.success)
        led == Append(st.ledger, OutcomeRecord("agent", service_id, issue, action, success, t))
    IN  IF decision.k = 0
        THEN {[st EXCEPT !.incidents = inc, !.cache = d.cache, !.ret = returned,
                         !.issue = issue]}
        ELSE {[catalog |-> cat, ledger |-> led,
               incidents |-> AgentUpdateIncident(inc, IncidentId(t, service_id), action, success),
               cache |-> d.cache, ret |-> returned, issue |-> issue] :
                 cat \in UpdateConfidence("agent", st.catalog, st.ledger, issue, action)}

\* SelfHealingAgent._handle_anomaly on the state st (catalog, ledger,
\* incidents, cache, last decision): the states it can leave.
HandleAnomaly(st, service_id, metrics, issue, xenv, pick, t) ==
    LET inc == Append(st.incidents, AgentIncident(t, service_id, issue))
        d == DecideActionAgent(st.catalog, st.ledger, st.cache, issue, service_id, t, pick)
        decision == d.decision
        current == IF decision.k = 0 THEN None ELSE st.catalog[decision.k].confidence
        returned == [pending |-> FALSE, decision |-> decision.k, current |-> current]
        action == decision.entry.action
        result == Execute(action, "none", xenv).val
        success == DetermineSuccess(issue, metrics, PostActionMetrics, result.success)
        led == Append(st.ledger, OutcomeRecord("agent", service_id, issue, action, success, t))
    IN  IF decision.k = 0
        THEN {[st EXCEPT !.incidents = inc, !.cache = d.cache, !.ret = returned,
                         !.issue = issue]}
        ELSE {[catalog |-> cat, ledger |-> led,
               incidents |-> AgentUpdateIncident(inc, IncidentId(t, service_id), action, success),
               cache |-> d.cache, ret |-> returned, issue |-> issue] :
                 cat \in UpdateConfidence("agent", st.catalog, led, issue, action)}

\* SelfHealingAgent._monitor_service, the loop over the anomalies from the
\* i-th on, on each of the states S.
RECURSIVE HandleAnomalies(_, _, _, _, _, _, _, _)
HandleAnomalies(S, service_id, metrics, anomalies, i, xenv, pick, t) ==
    IF i > Len(anomalies) THEN S
    ELSE HandleAnomalies(
            UNION {HandleAnomaly(st, service_id, metrics, anomalies[i], xenv, pick, t) : st \in S},
            service_id, metrics, anomalies, i + 1, xenv, pick, t)

MaxAgentIncidents == 3
AgentInstants == {0, 10, 70}
AgentRegistrations == {<<"HIGH_CPU", "scale_up">>, <<"MEMORY_PRESSURE", "restart">>}
AgentRegConfidences == {(31 * Scale) \div 100, Scale}
AgentProbes == {Probe("2xx", 40), Probe("2xx", 95), Probe("refused", 40)}
AgentExecEnvs == {ExecEnv("2xx"), ExecEnv("refused")}
AgentTrends == {{}, {"MEMORY_PRESSURE"}}

\* The agent is running; its monitoring loop is about to start its first round.
AgentInit ==
    /\ impl = "agent"
    /\ call = [fn |-> "none"]
    /\ ret = NoRet
    /\ now = 0
    /\ catalog = <<>>
    /\ ledger = <<>>
    /\ incidents = <<>>
    /\ decision_cache = <<>>
    /\ agent_running = TRUE
    /\ agent_lock = None
    /\ threads = <<Idle(0)>>

\* routes.add_catalog_entry
AgentAddCatalogEntry ==
    /\ \E p \in AgentRegistrations, confidence \in AgentRegConfidences :
          /\ CatalogAccepts("agent", catalog, p[1], p[2], confidence)
          /\ catalog' = Append(catalog, CatalogEntry(p[1], p[2], TRUE, confidence))
    /\ call' = [fn |-> "add_catalog_entry"]
    /\ ret' = NoRet
    /\ UNCHANGED <<impl, now, ledger>>
    /\ UNCHANGED loop

\* SelfHealingAgent._monitoring_loop, one round: _monitor_service collects,
\* detects and handles every anomaly in turn; then the loop sleeps.
AgentRound(service_id, env, trend, xenv, pick) ==
    /\ agent_running
    /\ threads[1].pc = "idle"
    /\ now >= threads[1].wake
    /\ LET metrics == CollectMetricsAgent(env).val
           anomalies == DetectAnomalies(metrics, trend)
           start == [catalog |-> catalog, ledger |-> ledger, incidents |-> incidents,
                     cache |-> decision_cache, ret |-> ret, issue |-> "none"]
       IN  /\ Len(incidents) + Len(anomalies) <= MaxAgentIncidents
           /\ \E st \in HandleAnomalies({start}, service_id, metrics, anomalies, 1,
                                        xenv, pick, now) :
                 /\ catalog' = st.catalog
                 /\ ledger' = st.ledger
                 /\ incidents' = st.incidents
                 /\ decision_cache' = st.cache
                 /\ ret' = st.ret
                 /\ call' = IF anomalies = <<>> THEN call
                            ELSE [fn |-> "decide_action", issue |-> st.issue,
                                  service_id |-> service_id, t |-> now]
    /\ threads' = <<Idle(now + CHECK_INTERVAL)>>
    /\ UNCHANGED <<impl, now, agent_running, agent_lock>>

\* routes.execute_manual_action: the action is executed and logged in the
\* ledger, in a document without an issue.
ManualRecord(service_id, action, success, t) ==
    [service_id |-> service_id, issue |-> "None", action |-> action,
     success |-> success, timestamp |-> t, type |-> "none", manual |-> TRUE]

MaxManual == 1
ManualRecords(led) == {a \in 1..Len(led) : "manual" \in DOMAIN led[a]}

ExecuteManualAction(service_id, action, xenv) ==
    /\ Cardinality(ManualRecords(ledger)) < MaxManual
    /\ ledger' = Append(ledger, ManualRecord(service_id, action,
                                             Execute(action, "none", xenv).val.success, now))
    /\ call' = [fn |-> "execute_manual_action"]
    /\ ret' = NoRet
    /\ UNCHANGED <<impl, now, catalog>>
    /\ UNCHANGED loop

AgentTick ==
    /\ Tick(AgentInstants)
    /\ UNCHANGED <<impl, call, ret, catalog, ledger>>
    /\ UNCHANGED loop

AgentNext ==
    \/ AgentAddCatalogEntry
    \/ \E service_id \in Services, env \in AgentProbes, trend \in AgentTrends,
          xenv \in AgentExecEnvs, pick \in 0..Len(catalog) :
          AgentRound(service_id, env, trend, xenv, pick)
    \/ \E service_id \in Services, xenv \in AgentExecEnvs :
          ExecuteManualAction(service_id, "restart", xenv)
    \/ AgentTick

SpecAgent == AgentInit /\ [][AgentNext]_vars

\* C2: at every instant at most one incident of a (service, issue) pair has a
\* status that is not terminal; detecting the pair again while its incident is
\* open inserts no new incident.
C2_OneOpenIncidentPerPair ==
    \A i, j \in 1..Len(incidents) :
        ( /\ incidents[i].service_id = incidents[j].service_id
          /\ incidents[i].issue = incidents[j].issue
          /\ incidents[i].status \notin TerminalStatus
          /\ incidents[j].status \notin TerminalStatus )
        => i = j

\* C4: the catalog entry a decide_action call returns has, at the time it is
\* returned, a confidence strictly above the minimum confidence threshold.
C4_ReturnedEntryAboveThreshold ==
    (call.fn = "decide_action" /\ ret.decision # 0) => ret.current > MIN_CONFIDENCE

\* C13: the counts the learner takes from the ledger for a pair are the
\* outcomes the control loop recorded for it: every step adds to the total
\* (to the successes) of a pair exactly the (successful) records of the pair
\* the loop appended in that step, records already there stay, and the record
\* of a manual action or of another pair adds nothing.
LoopRecorded(led, from, issue, action) ==
    {a \in (from + 1)..Len(led) :
        /\ "manual" \notin DOMAIN led[a]
        /\ led[a].issue = issue
        /\ led[a].action = action}

C13Pairs == {<<"HIGH_CPU", "scale_up">>, <<"MEMORY_PRESSURE", "restart">>,
             <<"SERVICE_DOWN", "restart">>}

C13_LedgerRoundTrip ==
    [][/\ Len(ledger') >= Len(ledger)
       /\ \A a \in 1..Len(ledger) : ledger'[a] = ledger[a]
       /\ \A p \in C13Pairs :
             LET before == Attempts(impl, ledger, p[1], p[2])
                 after == Attempts(impl, ledger', p[1], p[2])
                 new == LoopRecorded(ledger', Len(ledger), p[1], p[2])
             IN  /\ Cardinality(after) = Cardinality(before) + Cardinality(new)
                 /\ Cardinality({a \in after : ledger'[a].success}) =
                       Cardinality({a \in before : ledger[a].success})
                       + Cardinality({a \in new : ledger'[a].success})]_vars

\* The ledger holds a success and a failure of (HIGH_CPU, scale_up) recorded
\* by the loop and a manual restart.
C13_Witness ==
    /\ impl = "agent"
    /\ ManualRecords(ledger) # {}
    /\ \E a, b \in LoopRecorded(ledger, 0, "HIGH_CPU", "scale_up") :
          ledger[a].success /\ ~ledger[b].success
    /\ Cardinality(Attempts("agent", ledger, "HIGH_CPU", "scale_up")) = 2

\* A step of the loop that recorded one outcome, a failure, and nothing else.
RecordsOneFailure ==
    /\ impl = "agent"
    /\ Len(ledger') = Len(ledger) + 1
    /\ "manual" \notin DOMAIN ledger'[Len(ledger')]
    /\ ~ledger'[Len(ledger')].success

\* The catalog entry of the pair of the last record of led (0 when it has none).
EntryOfLast(cat, led) ==
    FirstIndex({k \in 1..Len(cat) : /\ cat[k].issue = led[Len(led)].issue
                                    /\ cat[k].action = led[Len(led)].action})

\* C14 as stated: after a failed outcome is recorded for a pair, the update
\* leaves the pair's confidence strictly below what it was, whatever the
\* ledger history, whenever it was above 0.
C14_FailureLowersConfidence ==
    [][RecordsOneFailure =>
         LET k == EntryOfLast(catalog, ledger')
         IN  (k # 0 /\ catalog[k].confidence > 0) =>
                catalog'[k].confidence < catalog[k].confidence]_vars

\* C14 as amended: the update leaves the confidence strictly below what it was
\* exactly when it was above the success ratio of the pair's records, the
\* failure included; so it does whenever the pair has no success on record.
C14_FailureLowersTowardsRatio ==
    [][RecordsOneFailure =>
         LET k == EntryOfLast(catalog, ledger')
             r == ledger'[Len(ledger')]
             total == Cardinality({a \in 1..Len(ledger') :
                          "manual" \notin DOMAIN ledger'[a] /\ ledger'[a].issue = r.issue
                          /\ ledger'[a].action = r.action})
             successes == Cardinality({a \in 1..Len(ledger') :
                          "manual" \notin DOMAIN ledger'[a] /\ ledger'[a].issue = r.issue
                          /\ ledger'[a].action = r.action /\ ledger'[a].success})
         IN  k # 0 =>
                (catalog'[k].confidence < catalog[k].confidence
                   <=> successes * Scale < catalog[k].confidence * total)]_vars

\* The first outcome of (HIGH_CPU, scale_up), registered at 1.0, was a failure
\* and the entry is at 0.7.
C14_Witness ==
    /\ impl = "agent"
    /\ Len(ledger) = 1
    /\ ledger[1].issue = "HIGH_CPU" /\ ledger[1].action = "scale_up" /\ ~ledger[1].success
    /\ \E k \in 1..Len(catalog) :
          /\ catalog[k].issue = "HIGH_CPU" /\ catalog[k].action = "scale_up"
          /\ catalog[k].confidence = (7 * Scale) \div 10

\* C15: an incident for which the decision engine returned no action has gone
\* from DETECTED to FAILED once handled; it is never ACTING or RESOLVED and
\* does not stay DETECTED.  (A round of src/agent handles its incidents to the
\* end within the step; those with no update are the ones decide_action
\* returned nothing for.)
C15_NoActionIncidentFails ==
    impl = "agent" =>
        \A j \in 1..Len(incidents) :
            incidents[j].updates = <<>> => incidents[j].status = "failed"

\* C16: a handled incident with a chosen action is RESOLVED exactly when the
\* evaluator reported success and FAILED otherwise; it is not left DETECTED or
\* ACTING.
C16_ActedIncidentIsSettled ==
    impl = "agent" =>
        \A j \in 1..Len(incidents) :
            incidents[j].updates # <<>> =>
                incidents[j].status =
                    (IF incidents[j].updates[1].success THEN "resolved" ELSE "failed")

\* A step of the learner: update_confidence or recalculate_all_confidence.
IsLearnerStep == call.fn = "learn" /\ call'.updates = call.updates + 1

\* C17: a run of the learner changes nothing of the catalog but the confidence
\* of entries that exist: no entry is created or removed, and every entry keeps
\* its issue, action, auto flag and parameters; an update for a pair without
\* entry creates none.
C17_LearnerKeepsCatalogShape ==
    [][IsLearnerStep =>
         /\ Len(catalog') = Len(catalog)
         /\ \A k \in 1..Len(catalog) :
               [catalog'[k] EXCEPT !.confidence = catalog[k].confidence] = catalog[k]]_vars

\* update_confidence has run for a pair that has outcomes on record and no
\* catalog entry, next to an entry registered with auto off and parameters.
C17_Witness ==
    /\ call.fn = "learn"
    /\ call.op[1] = "update_confidence"
    /\ Entries(catalog, call.op[2], call.op[3]) = {}
    /\ PairRecords(call.op[2], call.op[3]) # {}
    /\ \E k \in 1..Len(catalog) :
          /\ ~catalog[k].auto
          /\ "parameters" \in DOMAIN catalog[k] /\ catalog[k].parameters = "given"

(***************************************************************************)
(* decide_action of src/agent on its own: catalog registrations, recorded  *)
(* outcomes with their confidence update, and calls of decide_action,      *)
(* while time passes.  Each call is made with two independent draws of the *)
(* random module, to compare what they return.                             *)
(***************************************************************************)
MaxDecideLedger == 1
MaxDecisions == 2
DecideServices == {"s1"}
DecideIssues == {"MEMORY_PRESSURE", "HIGH_CPU"}
DecideRegistrations == {<<"MEMORY_PRESSURE", "restart">>, <<"MEMORY_PRESSURE", "scale_up">>,
                        <<"HIGH_CPU", "scale_up">>}
DecideRegConfidences == {(4 * Scale) \div 10, Scale}
DecideInstants == {0, 30, 60, SECONDS_PER_DAY + 30}

\* decide_action logging its call in agent_memory.
DecideActionStoresLogging(cat, led, issue, service_id, t) ==
    [catalog |-> cat,
     ledger |-> Append(led, [service_id |-> service_id, issue |-> issue, action |-> "none",
                             success |-> FALSE, timestamp |-> t, type |-> "decision"])]

\* The collections after decide_action: it reads them (find, count_documents)
\* and writes neither.
DecideActionStores(cat, led, issue, service_id, t) ==
    [catalog |-> cat, ledger |-> led]

\* random.random() < 0.1 was evaluated and true: decide_action reached the
\* exploration of _apply_decision_strategy and took random.choice.
Explored(cat, led, cache, issue, service_id, t, pick) ==
    LET K == Eligible(cat, issue)
    IN  /\ ~CacheHit(cache, CacheKey(issue, service_id), t)
        /\ Cardinality(K) > 1
        /\ issue # "SERVICE_DOWN"
        /\ ~(/\ issue \in {"MEMORY_PRESSURE", "HIGH_CPU"}
             /\ IsRecurringIssue(led, issue, service_id, t)
             /\ \E k \in K : cat[k].action \in {"scale_up", "restart"})
        /\ pick \in K

DecideInit ==
    /\ impl = "agent"
    /\ call = [fn |-> "none", decisions |-> 0]
    /\ ret = NoRet
    /\ now = 0
    /\ catalog = <<>>
    /\ ledger = <<>>
    /\ LoopUnused

\* routes.add_catalog_entry
DecideAddCatalogEntry ==
    /\ \E p \in DecideRegistrations, confidence \in DecideRegConfidences, auto \in BOOLEAN :
          /\ CatalogAccepts("agent", catalog, p[1], p[2], confidence)
          /\ catalog' = Append(catalog, CatalogEntry(p[1], p[2], auto, confidence))
    /\ call' = [call EXCEPT !.fn = "add_catalog_entry"]
    /\ UNCHANGED <<impl, ret, now, ledger>>
    /\ UNCHANGED loop

\* An outcome of a catalog entry's action is stored and the confidence updated
\* (_store_evaluation, update_confidence).
DecideLearn ==
    /\ Len(ledger) < MaxDecideLedger
    /\ \E k \in 1..Len(catalog), service_id \in DecideServices, success \in BOOLEAN :
          LET led == Append(ledger, OutcomeRecord("agent", service_id, catalog[k].issue,
                                                  catalog[k].action, success, now))
          IN  /\ ledger' = led
              /\ catalog' \in UpdateConfidence("agent", catalog, led, catalog[k].issue,
                                               catalog[k].action)
    /\ call' = [call EXCEPT !.fn = "update_confidence"]
    /\ UNCHANGED <<impl, ret, now>>
    /\ UNCHANGED loop

\* decide_action(issue, service_id), with the draw `pick`; ret holds what it
\* returns and what it would have returned with the draw `other`.
DecideCall(issue, service_id, pick, other) ==
    /\ call.decisions < MaxDecisions
    /\ LET d == DecideActionAgent(catalog, ledger, decision_cache, issue, service_id, now, pick)
           e == DecideActionAgent(catalog, ledger, decision_cache, issue, service_id, now, other)
           after == DecideActionStores(catalog, ledger, issue, service_id, now)
       IN  /\ ret' = [pending |-> FALSE, decision |-> d.decision, again |-> e.decision,
                      hit |-> CacheHit(decision_cache, CacheKey(issue, service_id), now),
                      after_drop |-> call.fn = "drop_caches",
                      age |-> IF CacheKey(issue, service_id) \in DOMAIN decision_cache
                              THEN now - decision_cache[CacheKey(issue, service_id)].timestamp
                              ELSE None,
                      explored |->
                         \/ Explored(catalog, ledger, decision_cache, issue, service_id, now, pick)
                         \/ Explored(catalog, ledger, decision_cache, issue, service_id, now, other)]
           /\ decision_cache' = d.cache
           /\ catalog' = after.catalog
           /\ ledger' = after.ledger
    /\ call' = [fn |-> "decide_action", decisions |-> call.decisions + 1,
                issue |-> issue, service_id |-> service_id]
    /\ UNCHANGED <<impl, now, incidents, agent_running, agent_lock, threads>>

\* The caches kept.
DropCachesKeepingDecisions(cache) == cache

\* The in-memory state of the decision engine after a drop: what
\* DecisionEngine.__init__ sets, an empty decision_cache (action_history is
\* empty at all times, record_action_outcome having no caller).
DropCaches(cache) == <<>>

\* The caches are dropped (the process restarts, or the engine is rebuilt).
DecideDropCaches ==
    /\ decision_cache' = DropCaches(decision_cache)
    /\ call' = [call EXCEPT !.fn = "drop_caches"]
    /\ UNCHANGED <<impl, ret, now, catalog, ledger, incidents, agent_running, agent_lock,
                   threads>>

DecideNext ==
    \/ DecideAddCatalogEntry
    \/ DecideDropCaches
    \/ DecideLearn
    \/ \E issue \in DecideIssues, service_id \in DecideServices,
          pick \in 0..Len(catalog), other \in 0..Len(catalog) :
          DecideCall(issue, service_id, pick, other)
    \/ Tick(DecideInstants)

SpecDecide == DecideInit /\ [][DecideNext]_vars

\* A step that is a call of decide_action.
IsDecideStep == call'.fn = "decide_action" /\ call'.decisions = call.decisions + 1

\* C18: a call of decide_action leaves the catalog and the ledger as they
\* were, whether it answers from the cache, finds no candidate or selects one.
C18_DecideLeavesStores ==
    [][IsDecideStep => catalog' = catalog /\ ledger' = ledger]_vars

\* decide_action has selected an entry and cached it, with outcomes on record.
C18_Witness ==
    /\ call.fn = "decide_action"
    /\ ~ret.pending /\ ~ret.hit /\ ret.decision.k # 0
    /\ ledger # <<>>
    /\ CacheKey(call.issue, call.service_id) \in DOMAIN decision_cache

MaxCycles == 2
MaxCycleIncidents == 3
CycleServices == <<"s1", "s2">>
EnabledServices == {CycleServices[i] : i \in 1..Len(CycleServices)}

\* A health answer without details.memory_usage: collect_metrics of run.py
\* stores memory None.
ProbeWithoutMemory == [Probe("2xx", 40) EXCEPT !.memory = None]
CycleProbes == {Probe("2xx", 40), Probe("2xx", 95), Probe("refused", 40), ProbeWithoutMemory}
CycleAfterProbes == {Probe("2xx", 40), Probe("refused", 40)}
CycleExecEnvs == {ExecEnv("2xx"), ExecEnv("refused")}

CycleUnderWay(n, visited, raised) ==
    [fn |-> "monitor_loop", cycle |-> n, visited |-> visited, raised |-> raised]
CycleSummary(n, visited, raised) ==
    [pending |-> FALSE, cycle |-> n, visited |-> visited, raised |-> raised]

CycleInit ==
    /\ impl \in Impls
    /\ call = CycleUnderWay(1, {}, {})
    /\ ret = NoRet
    /\ now = 0
    /\ catalog = IF impl = "run" THEN DefaultCatalog ELSE <<>>
    /\ ledger = <<>>
    /\ incidents = <<>>
    /\ decision_cache = <<>>
    /\ agent_running = TRUE
    /\ agent_lock = None
    /\ threads = <<Idle(0)>>

\* routes.add_catalog_entry
CycleAddCatalogEntry ==
    /\ impl = "agent"
    /\ CatalogAccepts("agent", catalog, "HIGH_CPU", "scale_up", Scale)
    /\ catalog' = Append(catalog, CatalogEntry("HIGH_CPU", "scale_up", TRUE, Scale))
    /\ UNCHANGED <<impl, call, ret, now, ledger>>
    /\ UNCHANGED loop

\* The loop goes on after a service, at the instant t: to the next service,
\* or, all services visited, to the next cycle after the sleep.
CycleGoesOn(visited, t, pause) ==
    IF visited = EnabledServices
    THEN /\ ret' = CycleSummary(call.cycle, visited, call.raised)
         /\ call' = CycleUnderWay(call.cycle + 1, {}, {})
         /\ now' = t + pause + CHECK_INTERVAL
    ELSE /\ ret' = ret
         /\ call' = [call EXCEPT !.visited = visited]
         /\ now' = t + pause

\* monitor_loop of run.py, the body of `for service in enabled_services` for
\* the next service: collect, detect, insert the incident, decide, execute,
\* sleep, collect again, evaluate, record, update.  An exception leaves the
\* for loop for the except clause of the cycle: sleep(5), then a new cycle.
CycleServiceRun(env, after) ==
    /\ impl = "run"
    /\ call.cycle <= MaxCycles
    /\ Len(incidents) < MaxCycleIncidents
    /\ LET service_id == CycleServices[Cardinality(call.visited) + 1]
           visited == call.visited \cup {service_id}
           metrics == CollectMetricsRun(env).val
           issue == DetectAnomaly(metrics)
           k == IF issue \in {"TypeError", "none"} THEN 0
                ELSE DecideActionRun(catalog, ledger, issue, service_id, now)
           settled == now + ExecuteDuration(catalog[k].action, env) + SETTLE_SLEEP
           resolved == EvaluateAction(metrics, CollectMetricsRun(after).val, issue)
           led == Append(ledger, OutcomeRecord("run", service_id, issue, catalog[k].action,
                                               resolved, settled))
           inc == Append(incidents, Incident(now, service_id, issue))
       IN  CASE issue = "TypeError" ->
                  /\ ret' = CycleSummary(call.cycle, visited, call.raised \cup {service_id})
                  /\ call' = CycleUnderWay(call.cycle + 1, {}, {})
                  /\ now' = now + ERROR_SLEEP
                  /\ UNCHANGED <<catalog, ledger, incidents>>
             [] issue = "none" ->
                  /\ CycleGoesOn(visited, now, SERVICE_SLEEP)
                  /\ UNCHANGED <<catalog, ledger, incidents>>
             [] issue \notin {"TypeError", "none"} /\ k = 0 ->
                  /\ CycleGoesOn(visited, now, SERVICE_SLEEP)
                  /\ incidents' = inc
                  /\ UNCHANGED <<catalog, ledger>>
             [] OTHER ->
                  /\ CycleGoesOn(visited, settled, SERVICE_SLEEP)
                  /\ ledger' = led
                  /\ incidents' = UpdateIncident(inc, IncidentId(now, service_id),
                                                 IF resolved THEN "resolved" ELSE "failed",
                                                 [action |-> catalog[k].action,
                                                  success |-> resolved])
                  /\ catalog' \in UpdateConfidence("run", catalog, led, issue,
                                                   catalog[k].action)
    /\ threads' = <<Idle(now')>>
    /\ UNCHANGED <<impl, decision_cache, agent_running, agent_lock>>

\* _monitoring_loop of src/agent: _monitor_service of one of the services
\* submitted for the cycle, run by a pool thread; its exceptions end in its own
\* except clause.  The cycle ends with the sleep once every task is done.
\* What the service would answer to a probe once the action is done is no
\* input of the step: evaluate_action sends no such probe and takes the values
\* of _get_post_action_metrics.
CycleServiceAgent(service_id, env, trend, xenv, pick) ==
    /\ impl = "agent"
    /\ call.cycle <= MaxCycles
    /\ service_id \notin call.visited
    /\ LET metrics == CollectMetricsAgent(env).val
           anomalies == DetectAnomalies(metrics, trend)
           start == [catalog |-> catalog, ledger |-> ledger, incidents |-> incidents,
                     cache |-> decision_cache, ret |-> NoRet, issue |-> "none"]
       IN  /\ Len(incidents) + Len(anomalies) <= MaxCycleIncidents
           /\ \E st \in HandleAnomalies({start}, service_id, metrics, anomalies, 1,
                                        xenv, pick, now) :
                 /\ catalog' = st.catalog
                 /\ ledger' = st.ledger
                 /\ incidents' = st.incidents
                 /\ decision_cache' = st.cache
    /\ CycleGoesOn(call.visited \cup {service_id}, now, 0)
    /\ threads' = <<Idle(now')>>
    /\ UNCHANGED <<impl, agent_running, agent_lock>>

\* serverSelectionTimeoutMS: how long the driver may look for the store before
\* it raises, in seconds; other store errors are raised at once.
STORE_TIMEOUT == 5
StoreDelays == {0, STORE_TIMEOUT}

\* monitor_loop of run.py while the store is unavailable: the first store call
\* of the next service's turn (services_col.find at the start of the cycle,
\* else metrics_col.insert_one) raises after `delay`; the except clause of the
\* cycle sleeps 5 s and the while loop starts a new cycle.
CycleStoreDownRun(delay) ==
    /\ impl = "run"
    /\ call.cycle <= MaxCycles
    /\ LET service_id == CycleServices[Cardinality(call.visited) + 1]
           visited == IF call.visited = {} THEN {} ELSE call.visited \cup {service_id}
       IN  ret' = CycleSummary(call.cycle, visited, call.raised \cup {"store"})
    /\ call' = CycleUnderWay(call.cycle + 1, {}, {})
    /\ now' = now + delay + ERROR_SLEEP
    /\ threads' = <<Idle(now')>>
    /\ UNCHANGED <<impl, catalog, ledger, incidents, decision_cache, agent_running,
                   agent_lock>>

\* _monitor_service of src/agent while the store is unavailable: every store
\* call raises inside the try of its own method (_create_incident,
\* decide_action, _store_evaluation, update_confidence, _update_incident,
\* _store_metrics_history), nothing is written, and the task ends normally.
CycleStoreDownAgent(service_id) ==
    /\ impl = "agent"
    /\ call.cycle <= MaxCycles
    /\ service_id \notin call.visited
    /\ LET visited == call.visited \cup {service_id}
           raised == call.raised \cup {"store"}
       IN  IF visited = EnabledServices
           THEN /\ ret' = CycleSummary(call.cycle, visited, raised)
                /\ call' = CycleUnderWay(call.cycle + 1, {}, {})
                /\ now' = now + CHECK_INTERVAL
           ELSE /\ ret' = ret
                /\ call' = CycleUnderWay(call.cycle, visited, raised)
                /\ now' = now
    /\ threads' = <<Idle(now')>>
    /\ UNCHANGED <<impl, catalog, ledger, incidents, decision_cache, agent_running,
                   agent_lock>>

CycleNext ==
    \/ CycleAddCatalogEntry
    \/ \E delay \in StoreDelays : CycleStoreDownRun(delay)
    \/ \E service_id \in EnabledServices : CycleStoreDownAgent(service_id)
    \/ \E env \in CycleProbes, after \in CycleAfterProbes : CycleServiceRun(env, after)
    \/ \E service_id \in EnabledServices, env \in CycleProbes, trend \in AgentTrends,
          xenv \in CycleExecEnvs, pick \in 0..Len(catalog) :
          CycleServiceAgent(service_id, env, trend, xenv, pick)

SpecCycle == CycleInit /\ [][CycleNext]_vars

\* C20: whatever failed while a service was handled, the cycle has collected
\* from, detected on and handled every other enabled service when it ends.
C20_CycleVisitsEveryService ==
    ~ret.pending => ret.visited = EnabledServices

\* The incidents and ledger records a step added.
NewIncidents == (Len(incidents) + 1)..Len(incidents')
NewRecords == (Len(ledger) + 1)..Len(ledger')

\* The confidence update of record a ran on a ledger that held the record:
\* the pair's entry has the value update_confidence computes from the old
\* confidence and the counts over the records up to a.
UpdatedWithRecord(a) ==
    LET r == ledger'[a]
        upto == SubSeq(ledger', 1, a)
        k == FirstIndex(Entries(catalog, r.issue, r.action))
        total == Cardinality(Attempts("agent", upto, r.issue, r.action))
        successful == Cardinality({b \in Attempts("agent", upto, r.issue, r.action) :
                                      upto[b].success})
    IN  k # 0 => catalog'[k].confidence
                    \in NewConfidence("agent", catalog[k].confidence, successful, total)

\* C21: when the executed action fails, a record with success = false for the
\* (service, issue, action) is in the ledger before the pair's confidence
\* update runs, and the loop goes on: every issue detected on the service gets
\* handled and the service counts as visited in its cycle.
C21_FailedActionIsRecorded ==
    [][\A service_id \in EnabledServices, env \in CycleProbes, trend \in AgentTrends,
          xenv \in CycleExecEnvs, pick \in 0..Len(catalog) :
          CycleServiceAgent(service_id, env, trend, xenv, pick) =>
             /\ \A j \in NewIncidents :
                   (/\ incidents'[j].updates # <<>>
                    /\ ~Execute(incidents'[j].updates[1].action, "none", xenv).val.success)
                   => \E a \in NewRecords :
                         /\ ledger'[a].service_id = service_id
                         /\ ledger'[a].issue = incidents'[j].issue
                         /\ ledger'[a].action = incidents'[j].updates[1].action
                         /\ ~ledger'[a].success
                         /\ UpdatedWithRecord(a)
             /\ Len(incidents') =
                   Len(incidents) + Len(DetectAnomalies(CollectMetricsAgent(env).val, trend))
             /\ \/ service_id \in call'.visited
                \/ call'.cycle = call.cycle + 1 /\ ret'.visited = EnabledServices]_vars

\* A cycle of src/agent ended with every service visited, in which the action
\* taken for one issue failed and was recorded, the entry is at 0.7, and a
\* second issue of the same service got its incident.
C21_Witness ==
    /\ impl = "agent"
    /\ ~ret.pending /\ ret.visited = EnabledServices
    /\ \E a \in 1..Len(ledger) :
          /\ ~ledger[a].success
          /\ \E j \in 1..Len(incidents) :
                /\ incidents[j].updates # <<>>
                /\ incidents[j].issue = ledger[a].issue
                /\ incidents[j].service_id = ledger[a].service_id
                /\ \E i \in 1..Len(incidents) :
                      /\ i # j
                      /\ incidents[i].incident_id = incidents[j].incident_id
    /\ \E k \in 1..Len(catalog) : catalog[k].confidence = (7 * Scale) \div 10

\* C22: a cycle during which the store was unavailable is finished, every
\* enabled service visited, the loop stays alive, and the next cycle starts
\* no sooner than the check interval later.
C22_StoreOutageCycleIsFinished ==
    [][(call'.cycle = call.cycle + 1 /\ "store" \in ret'.raised) =>
          /\ ret'.visited = EnabledServices
          /\ now' >= now + CHECK_INTERVAL
          /\ agent_running' /\ threads'[1].pc = "idle"]_vars

(***************************************************************************)
(* The detector on its own: detect_anomalies of src/agent and              *)
(* detect_anomaly of run.py applied to metrics, to the trend found in the  *)
(* metrics history and to the service's custom thresholds.                 *)
(***************************************************************************)
\* service["custom_thresholds"]: a threshold per metric name, None for a
\* metric the service sets none for.
NoCustom == [memory |-> None, cpu |-> None]
CustomMetrics == {"memory", "cpu"}

\* detect_anomalies, the loop over custom_thresholds: CUSTOM once for every
\* metric whose value is above the service's threshold for it.
RECURSIVE Customs(_)
Customs(n) == IF n = 0 THEN <<>> ELSE Append(Customs(n - 1), "CUSTOM")
CustomAnomalies(metrics, custom) ==
    Customs(Cardinality({name \in CustomMetrics :
                            /\ custom[name] # None
                            /\ metrics[name] # None
                            /\ metrics[name] > custom[name]}))

\* detect_anomalies(metrics, service): the global checks, then the custom
\* thresholds, then the trends.
DetectAnomaliesOfService(metrics, trend, custom) ==
    LET checks == DetectAnomalies(metrics, {})
        all == DetectAnomalies(metrics, trend)
    IN  checks \o CustomAnomalies(metrics, custom) \o SubSeq(all, Len(checks) + 1, Len(all))

DetectMetrics ==
    [health : {"UP", "DOWN"}, memory : {None, 80, 95}, cpu : {None, 95},
     error_rate : {None, 50}, latency : {None, 2000}]
DetectTrends == SUBSET {"MEMORY_PRESSURE", "HIGH_ERROR_RATE"}
DetectCustoms == {NoCustom, [NoCustom EXCEPT !.memory = 70], [NoCustom EXCEPT !.memory = 97]}

DetectInit ==
    /\ impl \in Impls
    /\ call = [fn |-> "none"]
    /\ ret = NoRet
    /\ StoresUnused

\* One call of the detector; run.py knows neither trends nor custom thresholds.
Detect(metrics, trend, custom) ==
    /\ impl = "run" => trend = {} /\ custom = NoCustom
    /\ call' = [fn |-> "detect", metrics |-> metrics, trend |-> trend, custom |-> custom]
    /\ ret' = IF impl = "agent"
              THEN [pending |-> FALSE, exc |-> FALSE,
                    anomalies |-> DetectAnomaliesOfService(metrics, trend, custom)]
              ELSE LET issue == DetectAnomaly(metrics)
                   IN  [pending |-> FALSE, exc |-> issue = "TypeError",
                        anomalies |-> IF issue \in {"TypeError", "none"} THEN <<>>
                                      ELSE <<issue>>]
    /\ UNCHANGED <<impl, now, catalog, ledger>>
    /\ UNCHANGED loop

DetectNext ==
    \E metrics \in DetectMetrics, trend \in DetectTrends, custom \in DetectCustoms :
        Detect(metrics, trend, custom)

SpecDetect == DetectInit /\ [][DetectNext]_vars

Detected == {ret.anomalies[i] : i \in 1..Len(ret.anomalies)}
Over(v, threshold) == v # None /\ v > threshold

\* C23: for a service without custom thresholds the detector returns each
\* issue at most once, SERVICE_DOWN iff health is DOWN, and each of
\* MEMORY_PRESSURE, HIGH_LATENCY, HIGH_CPU, HIGH_ERROR_RATE iff its metric is
\* above the global threshold, whatever the other checks give.
C23_IndependentChecks ==
    (call.fn = "detect" /\ call.custom = NoCustom) =>
        /\ ~ret.exc
        /\ \A i, j \in 1..Len(ret.anomalies) : ret.anomalies[i] = ret.anomalies[j] => i = j
        /\ "SERVICE_DOWN" \in Detected <=> call.metrics.health = "DOWN"
        /\ "MEMORY_PRESSURE" \in Detected <=> Over(call.metrics.memory, MEMORY_THRESHOLD)
        /\ "HIGH_LATENCY" \in Detected <=> Over(call.metrics.latency, LATENCY_THRESHOLD)
        /\ "HIGH_CPU" \in Detected <=> Over(call.metrics.cpu, CPU_THRESHOLD)
        /\ "HIGH_ERROR_RATE" \in Detected
              <=> Over(call.metrics.error_rate, ERROR_RATE_THRESHOLD)

\* C24: for a service with a custom memory threshold, and no trend in its
\* history, MEMORY_PRESSURE is detected iff memory is above the custom
\* threshold, the global one playing no part.
C24_CustomThresholdOverrides ==
    (/\ call.fn = "detect" /\ impl = "agent"
     /\ call.custom.memory # None /\ call.trend = {})
    => ("MEMORY_PRESSURE" \in Detected <=> Over(call.metrics.memory, call.custom.memory))

\* MemoryRepository.cleanup_old_records(days=30): the age, in seconds, beyond
\* which the retention cleanup removes a record.
RETENTION_AGE == 2592000

\* C25: whatever the step, every record of the ledger is still in the ledger,
\* as it was, unless it is older than the retention age.
C25_LedgerIsAppendOnly ==
    [][\A a \in 1..Len(ledger) :
          \/ \E b \in 1..Len(ledger') : ledger'[b] = ledger[a]
          \/ ledger[a].timestamp < now - RETENTION_AGE]_vars

C28_ReturnsBestEligible ==
    (call.fn = "decide_action" /\ ~ret.pending /\ ~ret.explored) =>
        LET K == Eligible(catalog, call.issue)
        IN  IF K = {} THEN ret.decision = NoDecision
            ELSE ret.decision # NoDecision /\ ret.decision.k = NthBest(catalog, K, 1)

\* C29: decide_action returns the cached decision of (issue, service) only
\* while its age is below the 60 s of the cache; at every age of 60 s or more
\* it selects again from the catalog.
C29_CachedDecisionExpires ==
    (call.fn = "decide_action" /\ ~ret.pending /\ ret.age >= CACHE_SECONDS) => ~ret.hit

\* C30: the verdict follows the state the service is in after the action: when
\* the service does not answer a probe after the action and the settle delay
\* (whatever it answered before), the outcome recorded for the action is a
\* failure.
C30_VerdictFollowsPostActionState ==
    [][\A after \in CycleAfterProbes :
          (/\ \/ \E env \in CycleProbes : CycleServiceRun(env, after)
              \/ \E service_id \in EnabledServices, env \in CycleProbes, trend \in AgentTrends,
                    xenv \in CycleExecEnvs, pick \in 0..Len(catalog) :
                    CycleServiceAgent(service_id, env, trend, xenv, pick)
           /\ CollectMetrics(impl, after).val.health = "DOWN")
          => \A a \in NewRecords : ~ledger'[a].success]_vars

\* ------------------------------------------------------------------------
\* Stopping the agent of src/agent: start(), the monitoring loop with one
\* task of the executor in flight, and stop().
\*
\* threads[1] and threads[3] are monitor-loop threads, threads[2] the worker
\* of the executor running _monitor_service; agent_lock holds the instant at
\* which a stop() that has not returned yet was entered.

\* The longest waits of the action executor, in seconds: the sleep after an
\* answered restart, the timeout of the scale API.
RESTART_SLEEP == 5
SCALE_TIMEOUT == 30

\* How long a task _monitor_service may last: no action, a restart that is
\* answered, a restart or clear_cache that is not, a scale API that is not.
TaskDurations == {0, RESTART_SLEEP, POST_TIMEOUT, SCALE_TIMEOUT}

StopInstants == {0, 2, 8, 20, 40}
MaxStopTime == 60
Task(wake) == [pc |-> "task", wake |-> wake]
Min(a, b) == IF a <= b THEN a ELSE b

\* The monitor-loop threads: start() may be called again after stop(), and
\* each start() creates a thread.  The worker of the pool is threads[2].
Loops == {1, 3}
PoolShutDown == [pc |-> "shutdown", wake |-> 0]

\* self._monitor_thread: the loop thread started last.
MonitorThreadOfAgent == IF threads[3].pc # "unborn" THEN 3 ELSE 1

StopInit ==
    /\ impl = "agent"
    /\ call = [fn |-> "none"]
    /\ ret = NoRet
    /\ now = 0
    /\ catalog = <<>>
    /\ ledger = <<>>
    /\ incidents = <<>>
    /\ decision_cache = <<>>
    /\ agent_running = FALSE
    /\ agent_lock = None
    /\ threads = <<Unborn, Unborn, Unborn>>

\* start(): the flag is set and a monitor-loop thread started.
StopStart ==
    /\ ~agent_running
    /\ agent_lock = None
    /\ \E l \in Loops :
          /\ threads[l].pc = "unborn"
          /\ \A m \in Loops : threads[m].pc = "unborn" => l <= m
          /\ threads' = [threads EXCEPT ![l] = Idle(now)]
    /\ agent_running' = TRUE
    /\ call' = [fn |-> "start"]
    /\ UNCHANGED <<impl, ret, now, catalog, ledger, incidents, decision_cache, agent_lock>>

\* _monitoring_loop, one turn: a task is submitted to the executor, the loop
\* waits for it for CHECK_INTERVAL at the most, then sleeps CHECK_INTERVAL
\* before it reads the flag again.
StopDispatch(l, duration) ==
    /\ threads[l].pc = "idle"
    /\ agent_running
    /\ now >= threads[l].wake
    /\ threads[2].pc \notin {"task", "shutdown"}
    /\ now + duration <= MaxStopTime
    /\ threads' = [threads EXCEPT
                      ![l] = Idle(now + Min(duration, CHECK_INTERVAL) + CHECK_INTERVAL),
                      ![2] = Task(now + duration)]
    /\ call' = [fn |-> "_monitor_service"]
    /\ UNCHANGED <<impl, ret, now, catalog, ledger, incidents, decision_cache,
                   agent_running, agent_lock>>

\* _monitoring_loop, one turn with the executor shut down: submit raises
\* RuntimeError, the except clause of the loop logs it, and the loop sleeps
\* CHECK_INTERVAL.
StopSubmitRefused(l) ==
    /\ threads[l].pc = "idle"
    /\ agent_running
    /\ now >= threads[l].wake
    /\ threads[2].pc = "shutdown"
    /\ now + CHECK_INTERVAL <= MaxStopTime
    /\ threads' = [threads EXCEPT ![l] = Idle(now + CHECK_INTERVAL)]
    /\ call' = [fn |-> "submit_raises"]
    /\ UNCHANGED <<impl, ret, now, catalog, ledger, incidents, decision_cache,
                   agent_running, agent_lock>>

\* The task of the executor ends.
StopTaskEnd ==
    /\ threads[2].pc = "task"
    /\ now = threads[2].wake
    /\ threads' = [threads EXCEPT ![2] = Dead]
    /\ UNCHANGED <<impl, call, ret, now, catalog, ledger, incidents, decision_cache,
                   agent_running, agent_lock>>

\* _monitoring_loop: after its sleep the loop finds the flag cleared and ends.
StopLoopExit(l) ==
    /\ threads[l].pc = "idle"
    /\ now >= threads[l].wake
    /\ ~agent_running
    /\ threads' = [threads EXCEPT ![l] = Dead]
    /\ UNCHANGED <<impl, call, ret, now, catalog, ledger, incidents, decision_cache,
                   agent_running, agent_lock>>

\* The executor shut down without waiting.
ShutdownNoWait(th) == TRUE

\* self._executor.shutdown(wait=True) returns when no task is running.
Shutdown(th) == th[2].pc # "task"

\* stop(), up to the join: the flag is cleared.
Stop ==
    /\ agent_running
    /\ agent_lock = None
    /\ agent_running' = FALSE
    /\ agent_lock' = now
    /\ call' = [fn |-> "stop"]
    /\ UNCHANGED <<impl, ret, now, catalog, ledger, incidents, decision_cache, threads>>

\* stop(), from the join: _monitor_thread.join(timeout=5) returns when the
\* thread has ended or after 5 s; then the executor is shut down.
StopReturnEnabled ==
    /\ agent_lock # None
    /\ threads[MonitorThreadOfAgent].pc = "dead" \/ now >= agent_lock + JOIN_TIMEOUT
    /\ Shutdown(threads)

\* The executor is shut down for good: nothing creates another.
StopReturn ==
    /\ StopReturnEnabled
    /\ agent_lock' = None
    /\ ret' = [pending |-> FALSE, entered |-> agent_lock, returned |-> now,
               in_flight |-> threads[2].pc = "task"]
    /\ threads' = [threads EXCEPT ![2] = IF threads[2].pc = "task" THEN threads[2]
                                         ELSE PoolShutDown]
    /\ UNCHANGED <<impl, call, now, catalog, ledger, incidents, decision_cache,
                   agent_running>>

\* The instants at which something is due: the end of the task, the end of
\* the join, a loop's next reading of a cleared flag.
StopDeadlines ==
    (IF threads[2].pc = "task" THEN {threads[2].wake} ELSE {})
    \cup {threads[l].wake : l \in {m \in Loops : threads[m].pc = "idle" /\ ~agent_running}}
    \cup (IF agent_lock # None /\ now < agent_lock + JOIN_TIMEOUT
          THEN {agent_lock + JOIN_TIMEOUT} ELSE {})

\* Time passes, never beyond a deadline, and not while stop() can return.
StopTick ==
    /\ ~StopReturnEnabled
    /\ \E t \in StopInstants \cup StopDeadlines :
          /\ t > now
          /\ \A d \in StopDeadlines : now <= d => t <= d
          /\ now' = t
    /\ UNCHANGED <<impl, call, ret, catalog, ledger, incidents, decision_cache,
                   agent_running, agent_lock, threads>>

StopNext ==
    \/ StopStart
    \/ \E l \in Loops, duration \in TaskDurations : StopDispatch(l, duration)
    \/ \E l \in Loops : StopSubmitRefused(l)
    \/ StopTaskEnd
    \/ \E l \in Loops : StopLoopExit(l)
    \/ Stop
    \/ StopReturn
    \/ StopTick

SpecStop == StopInit /\ [][StopNext]_vars

\* C27: stop() returns no later than the timeout of its join after it was
\* entered, whether or not a per-service task is still in flight.
C27_StopIsBounded ==
    [][(agent_lock # None /\ agent_lock' = None) =>
          now <= agent_lock + JOIN_TIMEOUT]_vars

\* The entries of the catalog whose pair is stale at time t: it has attempts
\* in the ledger and fewer than half of them lie within the last 7 days.
StaleEntries(cat, led, t) ==
    {k \in 1..Len(cat) :
        LET all == Attempts("agent", led, cat[k].issue, cat[k].action)
            recent == {a \in all : led[a].timestamp >= t - STALE_AFTER}
        IN  all # {} /\ 2 * Cardinality(recent) < Cardinality(all)}

\* C31: a full recompute multiplies the current confidence of every stale pair
\* by 0.9, so that the confidence of a stale pair with no new outcome is lower
\* after each recompute than before it.
C31_StalePenaltyCompounds ==
    [][(call'.op[1] = "recalculate" /\ call'.updates = call.updates + 1) =>
          \A k \in StaleEntries(catalog, ledger, now) :
             /\ 10 * catalog'[k].confidence = 9 * catalog[k].confidence
             /\ catalog[k].confidence > 0 => catalog'[k].confidence < catalog[k].confidence]_vars

\* ------------------------------------------------------------------------
\* _apply_decision_strategy as a function of its inputs: the candidates
\* decide_action found for the issue, the records of agent_memory that
\* _is_recurring_issue counts, the clock and the draw of the random module.
StrategyIssues == {"MEMORY_PRESSURE", "HIGH_CPU", "HIGH_LATENCY"}
StrategyActions == {"restart", "scale_up", "clear_cache"}
StrategyConfidences == {(2 * Scale) \div 10, (5 * Scale) \div 10, Scale}
StrategyInstants == {RECURRING_WINDOW + 1, RECURRING_WINDOW + 2}
MaxCandidates == 2
MaxRecurrences == 3

\* The entries of one issue, each action once.
StrategyCatalogs ==
    UNION {{cat \in [1..n -> [issue : {issue}, action : StrategyActions, auto : {TRUE},
                              confidence : StrategyConfidences]] :
               \A j, k \in 1..n : j # k => cat[j].action # cat[k].action} :
           n \in 1..MaxCandidates, issue \in StrategyIssues}

StrategyInit ==
    /\ impl = "agent"
    /\ call = [fn |-> "none"]
    /\ ret = NoRet
    /\ now \in StrategyInstants
    /\ catalog \in StrategyCatalogs
    /\ \E n \in (MaxRecurrences - 1)..MaxRecurrences :
          ledger = [a \in 1..n |->
                       OutcomeRecord("agent", "s1", catalog[1].issue, catalog[1].action, FALSE, 1)]
    /\ LoopUnused

\* The selection of decide_action on the candidates of the issue, with the
\* draw `pick`.
StrategyCall(pick) ==
    /\ ret.pending
    /\ LET issue == catalog[1].issue
           K == Eligible(catalog, issue)
       IN  /\ K # {}
           /\ ret' = [pending |-> FALSE,
                      k |-> ApplyDecisionStrategy(catalog, ledger, K, issue, "s1", now, pick),
                      drawn |-> pick \in K]
           /\ call' = [fn |-> "_apply_decision_strategy", issue |-> issue, service_id |-> "s1"]
    /\ UNCHANGED impl
    /\ UNCHANGED stores

StrategyNext == \E pick \in 0..MaxCandidates : StrategyCall(pick)

SpecStrategy == StrategyInit /\ [][StrategyNext]_vars

\* The eligible candidates of the escalation class.
EscalationClass(cat, issue) ==
    {k \in Eligible(cat, issue) : cat[k].action \in {"scale_up", "restart"}}

\* The (service, issue) pair has at least 3 records within the last 30 minutes.
Recurred(led, issue, service_id, t) ==
    Cardinality({a \in 1..Len(led) :
                    /\ led[a].service_id = service_id /\ led[a].issue = issue
                    /\ t - led[a].timestamp <= 30 * 60}) >= 3

IssuesShown(metrics) ==
    (IF metrics.health = "DOWN" THEN {"SERVICE_DOWN"} ELSE {})
    \cup (IF Over(metrics.memory, MEMORY_THRESHOLD) THEN {"MEMORY_PRESSURE"} ELSE {})
    \cup (IF Over(metrics.latency, LATENCY_THRESHOLD) THEN {"HIGH_LATENCY"} ELSE {})
    \cup (IF Over(metrics.cpu, CPU_THRESHOLD) THEN {"HIGH_CPU"} ELSE {})
    \cup (IF Over(metrics.error_rate, ERROR_RATE_THRESHOLD) THEN {"HIGH_ERROR_RATE"} ELSE {})

\* C33: when the probe of a service shows SERVICE_DOWN together with other
\* issues, the first incident of the service in the cycle is the one of
\* SERVICE_DOWN and every other issue shown gets an incident of its own in the
\* same cycle.
C33_ServiceDownFirstOthersKept ==
    [][\A env \in CycleProbes :
          (/\ \/ \E after \in CycleAfterProbes : CycleServiceRun(env, after)
              \/ \E service_id \in EnabledServices, trend \in AgentTrends,
                    xenv \in CycleExecEnvs, pick \in 0..Len(catalog) :
                    CycleServiceAgent(service_id, env, trend, xenv, pick)
           /\ "SERVICE_DOWN" \in IssuesShown(CollectMetrics(impl, env).val)
           /\ Cardinality(IssuesShown(CollectMetrics(impl, env).val)) > 1)
          => /\ NewIncidents # {}
             /\ incidents'[Len(incidents) + 1].issue = "SERVICE_DOWN"
             /\ \A issue \in IssuesShown(CollectMetrics(impl, env).val) :
                   \E j \in NewIncidents : incidents'[j].issue = issue]_vars

\* ------------------------------------------------------------------------
\* The restart action of both implementations on its own.

\* run.py execute_action: the success flag it returns.  restart and
\* clear_cache send one POST and test status_code == 200; scale_up and
\* rollback send nothing; Timeout, ConnectionError and any other exception
\* give False.  No health probe follows.
ExecuteActionRun(action, env) ==
    CASE action \in {"restart", "clear_cache"} -> env.post = "2xx"
      [] action \in {"scale_up", "rollback"} -> TRUE
      [] OTHER -> FALSE

\* Whether the restart sends the health probe that follows the POST.
RestartProbes(i, env) == i = "agent" /\ env.post = "2xx"

RestartEnvs == ExecEnvFor("restart", "none")

RestartInit ==
    /\ impl \in Impls
    /\ \E env \in RestartEnvs : call = [fn |-> "restart", env |-> env]
    /\ ret = NoRet
    /\ StoresUnused

RestartCall ==
    /\ call.fn = "restart"
    /\ ret = NoRet
    /\ ret' = [pending |-> FALSE,
               success |-> IF impl = "agent" THEN Execute("restart", "none", call.env).val.success
                           ELSE ExecuteActionRun("restart", call.env),
               probed |-> RestartProbes(impl, call.env)]
    /\ UNCHANGED <<impl, call>>
    /\ UNCHANGED stores

RestartNext == RestartCall

SpecRestart == RestartInit /\ [][RestartNext]_vars

\* C34: restart reports success exactly when its POST was answered 2xx and the
\* health probe made afterwards was answered 200; after a failed POST no probe
\* is made.
C34_RestartNeedsPostAndHealth ==
    (call.fn = "restart" /\ ret # NoRet) =>
        /\ ret.success <=> (call.env.post = "2xx" /\ call.env.health = "200")
        /\ call.env.post # "2xx" => ~ret.probed

\* ------------------------------------------------------------------------
\* _make_request on its own, for every value of MAX_RETRIES up to a bound and
\* every outcome of each attempt.
MaxRetriesBound == 3

RequestInit ==
    /\ impl = "agent"
    /\ \E max_retries \in 0..MaxRetriesBound :
          \E attempts \in [1..max_retries -> PostOutcomes] :
             call = [fn |-> "_make_request", max_retries |-> max_retries,
                     attempts |-> attempts]
    /\ ret = NoRet
    /\ StoresUnused

RequestCall ==
    /\ call.fn = "_make_request"
    /\ ret = NoRet
    /\ ret' = MakeRequestWith(call.max_retries, call.attempts, 1, 0)
    /\ UNCHANGED <<impl, call>>
    /\ UNCHANGED stores

RequestNext == RequestCall

SpecRequest == RequestInit /\ [][RequestNext]_vars

\* The attempts that are answered 2xx.
Answered(attempts) == {i \in DOMAIN attempts : attempts[i] = "2xx"}

\* C35: _make_request makes at most max_retries attempts, returns the first
\* response answered 2xx and makes no attempt after it, returns None when all
\* max_retries attempts failed, and sleeps once between two consecutive
\* attempts and never after the last.
C35_BoundedRetry ==
    (call.fn = "_make_request" /\ ret # NoRet) =>
        /\ ret.made <= call.max_retries
        /\ ret.answered = FirstIndex(Answered(call.attempts))
        /\ ret.made = IF ret.answered # 0 THEN ret.answered ELSE call.max_retries
        /\ ret.sleeps = IF ret.made = 0 THEN 0 ELSE ret.made - 1

\* Every one of three attempts failed: None is returned after two sleeps.
C35_Witness ==
    /\ call.fn = "_make_request" /\ ret # NoRet
    /\ call.max_retries = 3 /\ Answered(call.attempts) = {}
    /\ ret.answered = 0 /\ ret.made = 3 /\ ret.sleeps = 2

\* ------------------------------------------------------------------------
\* Two tasks of the executor, one per service, each inside update_confidence
\* for the same (issue, action): find_one, the two count_documents and
\* update_one are separate calls to the store, each atomic on its own.  Both
\* tasks have stored their outcome record before (_store_evaluation).
RacePair == <<"HIGH_CPU", "scale_up">>
RaceConfidences == {(4 * Scale) \div 10, Scale}
RaceStart == [pc |-> "start", wake |-> 0]
RaceFound(old) == [pc |-> "found", wake |-> 0, old |-> old]
RaceCounted(old, total, successful) ==
    [pc |-> "counted", wake |-> 0, old |-> old, total |-> total, successful |-> successful]

RaceInit ==
    /\ impl = "agent"
    /\ ret = NoRet
    /\ now = 0
    /\ \E confidence \in RaceConfidences :
          /\ catalog = <<CatalogEntry(RacePair[1], RacePair[2], TRUE, confidence)>>
          /\ call = [fn |-> "update_confidence", initial |-> confidence]
    /\ \E first \in BOOLEAN, second \in BOOLEAN :
          ledger = << OutcomeRecord("agent", "s1", RacePair[1], RacePair[2], first, 0),
                      OutcomeRecord("agent", "s2", RacePair[1], RacePair[2], second, 0) >>
    /\ incidents = <<>>
    /\ decision_cache = <<>>
    /\ agent_running = TRUE
    /\ agent_lock = None
    /\ threads = [th \in ThreadIds |-> RaceStart]

\* record = catalog_col.find_one({"issue": ..., "action": ...})
RaceFind(th) ==
    /\ threads[th].pc = "start"
    /\ threads' = [threads EXCEPT ![th] = RaceFound(catalog[1].confidence)]
    /\ UNCHANGED <<impl, call, ret, now, catalog, ledger, incidents, decision_cache,
                   agent_running, agent_lock>>

\* The two count_documents calls; nothing inserts between them here.
RaceCount(th) ==
    /\ threads[th].pc = "found"
    /\ LET all == Attempts("agent", ledger, RacePair[1], RacePair[2])
       IN  threads' = [threads EXCEPT ![th] =
                          RaceCounted(threads[th].old, Cardinality(all),
                                      Cardinality({a \in all : ledger[a].success}))]
    /\ UNCHANGED <<impl, call, ret, now, catalog, ledger, incidents, decision_cache,
                   agent_running, agent_lock>>

\* catalog_col.update_one(..., {"$set": {"confidence": new_confidence, ...}})
RaceUpdate(th) ==
    /\ threads[th].pc = "counted"
    /\ \E c \in NewConfidence("agent", threads[th].old, threads[th].successful,
                              threads[th].total) :
          catalog' = [catalog EXCEPT ![1].confidence = c]
    /\ threads' = [threads EXCEPT ![th] = Dead]
    /\ UNCHANGED <<impl, call, ret, now, ledger, incidents, decision_cache,
                   agent_running, agent_lock>>

RaceNext ==
    \/ \E th \in ThreadIds : RaceFind(th)
    \/ \E th \in ThreadIds : RaceCount(th)
    \/ \E th \in ThreadIds : RaceUpdate(th)

SpecRace == RaceInit /\ [][RaceNext]_vars

\* The catalogs the two updates leave when one runs after the other.
OneAfterTheOther ==
    LET start == <<CatalogEntry(RacePair[1], RacePair[2], TRUE, call.initial)>>
    IN  UNION {UpdateConfidence("agent", cat, ledger, RacePair[1], RacePair[2]) :
                  cat \in UpdateConfidence("agent", start, ledger, RacePair[1], RacePair[2])}

\* C36: when both concurrent update_confidence calls have returned, the
\* confidence of the pair is the one that running the two calls one after the
\* other leaves.
C36_ConcurrentUpdatesSerialize ==
    (\A th \in ThreadIds : threads[th].pc = "dead") =>
        \E cat \in OneAfterTheOther : catalog[1].confidence = cat[1].confidence

\* ------------------------------------------------------------------------
\* The monitoring loop of src/agent and the tasks it submits for one service,
\* cycle after cycle.  threads[1] is the loop, the others are workers of the
\* pool (max_workers = 5; MaxTasks of them here).
MaxTasks == 2
Workers == 2..(1 + MaxTasks)
InFlight == {w \in Workers : threads[w].pc = "task"}

OverlapInit ==
    /\ impl = "agent"
    /\ call = [fn |-> "none"]
    /\ ret = NoRet
    /\ now = 0
    /\ catalog = <<>>
    /\ ledger = <<>>
    /\ incidents = <<>>
    /\ decision_cache = <<>>
    /\ agent_running = TRUE
    /\ agent_lock = None
    /\ threads = [th \in 1..(1 + MaxTasks) |-> IF th = 1 THEN Idle(0) ELSE Unborn]

\* _monitoring_loop, one turn: _monitor_service of the service is submitted
\* and taken by a free worker; the loop waits for the futures of this turn for
\* CHECK_INTERVAL at the most, then sleeps CHECK_INTERVAL.  Futures of earlier
\* turns are not looked at.
OverlapSubmit(duration) ==
    /\ threads[1].pc = "idle"
    /\ now = threads[1].wake
    /\ now + duration <= MaxStopTime
    /\ \E w \in Workers :
          /\ threads[w].pc # "task"
          /\ \A v \in Workers : threads[v].pc # "task" => w <= v
          /\ threads' = [threads EXCEPT
                            ![1] = Idle(now + Min(duration, CHECK_INTERVAL) + CHECK_INTERVAL),
                            ![w] = Task(now + duration)]
    /\ call' = [fn |-> "_monitor_service", service_id |-> "s1"]
    /\ UNCHANGED <<impl, ret, now, catalog, ledger, incidents, decision_cache,
                   agent_running, agent_lock>>

\* _monitor_service returns.
OverlapTaskEnd(w) ==
    /\ threads[w].pc = "task"
    /\ now = threads[w].wake
    /\ threads' = [threads EXCEPT ![w] = Dead]
    /\ UNCHANGED <<impl, call, ret, now, catalog, ledger, incidents, decision_cache,
                   agent_running, agent_lock>>

\* Time passes to the next instant at which a task ends or the loop wakes.
OverlapTick ==
    /\ \E t \in {threads[w].wake : w \in InFlight} \cup {threads[1].wake} :
          /\ t > now
          /\ \A w \in InFlight : t <= threads[w].wake
          /\ now <= threads[1].wake => t <= threads[1].wake
          /\ now' = t
    /\ UNCHANGED <<impl, call, ret, catalog, ledger, incidents, decision_cache,
                   agent_running, agent_lock, threads>>

OverlapNext ==
    \/ \E duration \in TaskDurations : OverlapSubmit(duration)
    \/ \E w \in Workers : OverlapTaskEnd(w)
    \/ OverlapTick

SpecOverlap == OverlapInit /\ [][OverlapNext]_vars

\* C37: at no time are two tasks of the same service in flight.
C37_OneTaskPerService ==
    Cardinality(InFlight) <= 1

\* C38: whatever start and stop calls were made, at most one monitor-loop
\* thread is alive.
C38_OneLoopThread ==
    Cardinality({th \in DOMAIN threads : threads[th].pc \in {"idle", "settle"}}) <= 1

\* C39: every turn the monitoring loop of a started agent makes submits the
\* monitoring task to the worker pool, and the task runs.
C39_RestartedAgentMonitors ==
    [][\A l \in Loops :
          (/\ agent_running /\ threads[l].pc = "idle" /\ now >= threads[l].wake
           /\ threads'[l].pc = "idle" /\ threads'[l].wake > threads[l].wake)
          => threads'[2].pc = "task"]_vars

\* C40: distinct incidents have distinct incident_ids, so that an update
\* keyed by incident_id reaches the incident of its own detection.
C40_IncidentIdsDistinct ==
    \A j, k \in 1..Len(incidents) :
       j # k => incidents[j].incident_id # incidents[k].incident_id
====
